---------------------------- MODULE Spec2Model ----------------------------
(***************************************************************************)
(* A model of the Solidity gas analyzer: the Lexer (source text to         *)
(* tokens), the recursive-descent Parser with its top-level error          *)
(* recovery (tokens to AST) and the two-pass Analyzer (AST to findings),   *)
(* and of the editor extension that runs the analyzer as a child process.  *)
(*                                                                         *)
(* Text is a TLA+ string.  Positions are 0-based as in the JavaScript      *)
(* source: the character at position p of s is SubSeq(s, p + 1, p + 1).    *)
(***************************************************************************)
EXTENDS Integers, Sequences, FiniteSets, TLC

VARIABLES
    source,          \* the text given to the Lexer, the Parser and the Analyzer
    pc,              \* where the run is: see the actions
    lpos,            \* Lexer.pos
    lline,           \* Lexer.line
    lcolumn,         \* Lexer.column
    ltokens,         \* Lexer.tokens
    tokens,          \* Parser.tokens
    ppos,            \* Parser.pos
    past,            \* the local ast of Parser.parse
    errorCount,      \* the local errorCount of Parser.parse
    perror,          \* the error Parser.parse threw
    ast,             \* what parse returned: Analyzer.ast
    findings,        \* Analyzer.findings
    currentContract, \* Analyzer.currentContract
    currentFunction, \* Analyzer.currentFunction
    stateVariables,  \* Analyzer.stateVariables
    pastFindings,    \* the findings of the Analyzers built before the current one
    runs,            \* for each call of analyze that returned, in order, the
                     \* Analyzer whose findings array it returned
    activeProcesses, \* GasOptimizerDiagnosticProvider.activeProcesses
    debounceTimers,  \* GasOptimizerDiagnosticProvider.debounceTimers
    analyses,        \* the calls of runAnalyzer, in order, each with the state
                     \* of the child process it spawned
    timers,          \* the debounce timers set by analyzeDocument, in order
    disposed         \* dispose() has been called

lexVars == <<lpos, lline, lcolumn, ltokens>>
parseVars == <<tokens, ppos, past, errorCount, perror>>
analyzerVars == <<findings, currentContract, currentFunction, stateVariables>>
runVars == <<pastFindings, runs>>
extVars == <<activeProcesses, debounceTimers, analyses, timers, disposed>>
pipelineVars == <<source, pc, lexVars, parseVars, ast, analyzerVars, runVars>>
vars == <<pipelineVars, extVars>>

(***************************************************************************)
(* JavaScript values the model needs.                                      *)
(***************************************************************************)
\* null where an object is expected.
Null == [type |-> "null"]

\* undefined, as the type of an object without one and as the value of a
\* missing property of a table.
Undefined == "undefined"

\* The character '\0' that Lexer.peek returns at the end of the source: a
\* string no character of a text equals.
Nul == "NUL"

\* null in a field that otherwise holds a string: a string no text of the
\* model equals.
NullString == "<null>"

\* undefined in such a field.
UndefinedString == "<undefined>"

\* node.type, undefined for an object without it.
NodeType(v) == IF "type" \in DOMAIN v THEN v.type ELSE Undefined

IsNull(v) == NodeType(v) = "null"

\* const x = v; ...: the value v bound to the parameter of K.
Let(v, K(_)) == K(v)

\* The same, with v computed once, before K is entered.
Once(v, K(_)) == CHOOSE result \in {K(x) : x \in {v}} : TRUE

(***************************************************************************)
(*                                 LEXER                                   *)
(***************************************************************************)
Keywords ==
    {"pragma", "solidity", "import", "contract", "interface", "library",
     "abstract", "is", "using", "for", "struct", "enum", "event", "error",
     "function", "modifier", "constructor", "fallback", "receive",
     "public", "private", "internal", "external", "pure", "view", "payable",
     "virtual", "override", "constant", "immutable", "anonymous", "indexed",
     "storage", "memory", "calldata",
     "if", "else", "while", "do", "break", "continue", "return",
     "try", "catch", "revert", "require", "assert",
     "new", "delete", "emit", "assembly", "unchecked",
     "mapping", "address", "bool", "string", "bytes", "byte",
     "int", "int8", "int16", "int32", "int64", "int128", "int256",
     "uint", "uint8", "uint16", "uint32", "uint64", "uint128", "uint256",
     "bytes1", "bytes2", "bytes4", "bytes8", "bytes16", "bytes32",
     "true", "false", "wei", "gwei", "ether", "seconds", "minutes",
     "hours", "days", "weeks", "years", "this", "super", "type"}

Digits == {"0", "1", "2", "3", "4", "5", "6", "7", "8", "9"}
LowerHex == {"a", "b", "c", "d", "e", "f"}
UpperHex == {"A", "B", "C", "D", "E", "F"}
LowerLetters ==
    LowerHex \cup {"g", "h", "i", "j", "k", "l", "m", "n", "o", "p", "q", "r",
                   "s", "t", "u", "v", "w", "x", "y", "z"}
UpperLetters ==
    UpperHex \cup {"G", "H", "I", "J", "K", "L", "M", "N", "O", "P", "Q", "R",
                   "S", "T", "U", "V", "W", "X", "Y", "Z"}
WhitespaceChars == {" ", "\t", "\r", "\n"}

isDigit(char) == char \in Digits
isHexDigit(char) == isDigit(char) \/ char \in LowerHex \/ char \in UpperHex
isAlpha(char) == char \in LowerLetters \/ char \in UpperLetters
isAlphaNumeric(char) == isAlpha(char) \/ isDigit(char)

\* Lexer.TOKEN_TYPES: the token types the table defines.  A name the table
\* lacks evaluates to undefined, as a missing property does.
TOKEN_TYPES ==
    {"IDENTIFIER", "NUMBER", "STRING", "HEX_STRING", "KEYWORD",
     "PLUS", "MINUS", "STAR", "SLASH", "PERCENT", "POWER", "AMPERSAND",
     "PIPE", "CARET", "TILDE", "LT", "GT", "LTE", "GTE", "EQ", "NEQ",
     "AND", "OR", "NOT", "ASSIGN", "PLUS_ASSIGN", "MINUS_ASSIGN",
     "STAR_ASSIGN", "SLASH_ASSIGN", "INCREMENT", "DECREMENT", "LSHIFT",
     "RSHIFT", "ARROW", "QUESTION", "COLON",
     "LPAREN", "RPAREN", "LBRACE", "RBRACE", "LBRACKET", "RBRACKET",
     "SEMICOLON", "COMMA", "DOT",
     "COMMENT", "NATSPEC", "EOF"}

T(name) == IF name \in TOKEN_TYPES THEN name ELSE Undefined

\* source[pos]
charAt(s, pos) == SubSeq(s, pos + 1, pos + 1)

\* A lexer cursor is [pos, line, column].
Cursor(pos, line, column) == [pos |-> pos, line |-> line, column |-> column]

Lexer_isAtEnd(s, c) == c.pos >= Len(s)

Lexer_peek(s, c) == IF Lexer_isAtEnd(s, c) THEN Nul ELSE charAt(s, c.pos)

Lexer_peekNext(s, c) == IF c.pos + 1 >= Len(s) THEN Nul ELSE charAt(s, c.pos + 1)

\* The cursor after advance(); the character advance() returns is
\* Lexer_peek(s, c).
Lexer_advance(s, c) ==
    IF Lexer_isAtEnd(s, c) THEN c
    ELSE IF charAt(s, c.pos) = "\n"
         THEN Cursor(c.pos + 1, c.line + 1, 1)
         ELSE Cursor(c.pos + 1, c.line, c.column + 1)

Least(S) == CHOOSE k \in S : \A other \in S : k <= other

Greatest(S) == CHOOSE k \in S : \A other \in S : k >= other

\* The positions from..(to - 1) of s that hold a newline.
newlinesPassed(s, from, to) == {p \in from..(to - 1) : charAt(s, p) = "\n"}

\* A variant of Lexer_moved that counts two lines for a newline.
Lexer_moved_twoLines(c, to, passed) ==
    Cursor(to, c.line + 2 * Cardinality(passed),
           IF passed = {} THEN c.column + (to - c.pos) ELSE to - Greatest(passed))

\* The cursor that calls of advance() leave when they took c to the position
\* to over the newlines at the positions passed: a line more for each
\* newline, and the column counted from the last of them.
Lexer_moved(c, to, passed) ==
    Cursor(to, c.line + Cardinality(passed),
           IF passed = {} THEN c.column + (to - c.pos) ELSE to - Greatest(passed))

\* advance() until the position to, which is not beyond the end of s.
Lexer_advanceTo(s, c, to) == Lexer_moved(c, to, newlinesPassed(s, c.pos, to))

\* advance() n times; at the end of s it does nothing.
Lexer_advanceBy(s, c, n) ==
    Lexer_advanceTo(s, c, IF c.pos + n > Len(s) THEN Len(s) ELSE c.pos + n)

\* Where a loop of advance() that starts at the position from stops: the
\* first position from there on at which Stops holds, the end of s when
\* there is none.
stopPosition(s, from, Stops(_)) ==
    Once({p \in from..(Len(s) - 1) : Stops(p)}, LAMBDA found :
        IF found = {} THEN Len(s) ELSE Least(found))

makeToken(type, value, line, column) ==
    [type |-> type, value |-> value, line |-> line, column |-> column]

\* What a read method leaves: the cursor and the token it returns.
Read(c, tok) == [cur |-> c, tok |-> tok]

\* What a character loop leaves: the cursor and the text it collected.
Scan(c, value) == [cur |-> c, value |-> value]

\* The text of s from the position from up to the position to, to excluded.
textBetween(s, from, to) == SubSeq(s, from + 1, to)

\* What a character loop leaves that went from the cursor c to the position
\* to: the text it passed is added to value.
scanTo(s, c, to, value) == Scan(Lexer_advanceTo(s, c, to), value \o textBetween(s, c.pos, to))

skipWhitespace(s, c) ==
    Lexer_advanceTo(s, c,
        stopPosition(s, c.pos, LAMBDA p : charAt(s, p) \notin WhitespaceChars))

\* while (!isAtEnd() && peek() in chars) value += advance();
readWhileIn(s, c, chars, value) ==
    scanTo(s, c, stopPosition(s, c.pos, LAMBDA p : charAt(s, p) \notin chars), value)

\* while (!isAtEnd() && peek() !== stop) value += advance();
readUntil(s, c, stop, value) ==
    scanTo(s, c, stopPosition(s, c.pos, LAMBDA p : charAt(s, p) = stop), value)

\* String.prototype.trim
trimStart(v) ==
    textBetween(v, stopPosition(v, 0, LAMBDA p : charAt(v, p) \notin WhitespaceChars),
                Len(v))

trimEnd(v) ==
    Once({p \in 0..(Len(v) - 1) : charAt(v, p) \notin WhitespaceChars}, LAMBDA found :
        IF found = {} THEN "" ELSE textBetween(v, 0, Greatest(found) + 1))

trim(v) == trimEnd(trimStart(v))

\* The multi-line comment loop of readComment: it stops at the end of s or
\* at the first star followed by a slash, which it consumes and leaves out
\* of the text.
readMultiline_close(s, c, value, to) ==
    IF to = Len(s) THEN scanTo(s, c, to, value)
    ELSE Scan(Lexer_advanceTo(s, c, to + 2), value \o textBetween(s, c.pos, to))

readMultiline(s, c, value) ==
    readMultiline_close(s, c, value,
        stopPosition(s, c.pos, LAMBDA p :
            charAt(s, p) = "*" /\ p + 1 < Len(s) /\ charAt(s, p + 1) = "/"))

\* A variant of commentToken that takes a slash for the mark of a
\* doc-comment in both kinds of comment.
commentToken_slashMark(s, c, c2, natSpecMark, isMultiline, r0) ==
    Once(r0, LAMBDA r : 
        Read(r.cur,
             [type |-> IF Lexer_peek(s, c2) = "/" \/ Lexer_peek(s, c2) = "!"
                       THEN T("NATSPEC") ELSE T("COMMENT"),
              value |-> trim(r.value), line |-> c.line, column |-> c.column,
              isMultiline |-> isMultiline]))

\* The comment token: c is where the comment starts, c2 the cursor after
\* its two opening characters, r the scan of its text.
commentToken(s, c, c2, natSpecMark, isMultiline, r0) ==
    Once(r0, LAMBDA r : 
        Read(r.cur,
             [type |-> IF Lexer_peek(s, c2) = natSpecMark \/ Lexer_peek(s, c2) = "!"
                       THEN T("NATSPEC") ELSE T("COMMENT"),
              value |-> trim(r.value), line |-> c.line, column |-> c.column,
              isMultiline |-> isMultiline]))

readComment(s, c) ==
    Once(Lexer_advanceBy(s, c, 2), LAMBDA c2 :
        IF Lexer_peekNext(s, c) = "/"
        THEN commentToken(s, c, c2, "/", FALSE, readUntil(s, c2, "\n", ""))
        ELSE commentToken(s, c, c2, "*", TRUE, readMultiline(s, c2, "")))

\* The number of backslashes in a row just before the position p, counted
\* back to the position from at most.
backslashesBefore(s, from, p) ==
    (p - 1) - Greatest({j \in (from - 1)..(p - 1) : j = from - 1 \/ charAt(s, j) # "\\"})

\* The loop of readString: a backslash and the character after it are
\* copied verbatim, so the loop stops at the end of s or at the first quote
\* that has an even number of backslashes in a row before it.
readStringBody(s, c, quote, value) ==
    scanTo(s, c,
        stopPosition(s, c.pos, LAMBDA p :
            charAt(s, p) = quote /\ backslashesBefore(s, c.pos, p) % 2 = 0),
        value)

\* The closing delimiter is consumed when there is one.
closeString(s, c, type, r0) ==
    Once(r0, LAMBDA r : 
        Read(IF ~Lexer_isAtEnd(s, r.cur) THEN Lexer_advance(s, r.cur) ELSE r.cur,
             makeToken(type, r.value, c.line, c.column)))

readString(s, c, quote) ==
    closeString(s, c, T("STRING"), readStringBody(s, Lexer_advance(s, c), quote, ""))

readHexString(s, c) ==
    closeString(s, c, T("HEX_STRING"), readUntil(s, Lexer_advanceBy(s, c, 4), "\"", ""))

\* 0x and the hexadecimal digits after it.
readNumber_hex(s, c) ==
    readWhileIn(s, Lexer_advanceBy(s, c, 2), Digits \cup LowerHex \cup UpperHex,
                Lexer_peek(s, c) \o Lexer_peekNext(s, c))

\* The fraction after the integer part int.
readNumber_fraction(s, int0) ==
    Once(int0, LAMBDA int : 
        IF Lexer_peek(s, int.cur) = "." /\ isDigit(Lexer_peekNext(s, int.cur))
        THEN readWhileIn(s, Lexer_advance(s, int.cur), Digits, int.value \o ".")
        ELSE int)

\* The sign and the digits of an exponent, c1 being the cursor after the e.
readNumber_exponentDigits(s, c10, value0) ==
    Once(c10, LAMBDA c1 : Once(value0, LAMBDA value : 
        IF Lexer_peek(s, c1) = "+" \/ Lexer_peek(s, c1) = "-"
        THEN readWhileIn(s, Lexer_advance(s, c1), Digits, value \o Lexer_peek(s, c1))
        ELSE readWhileIn(s, c1, Digits, value)))

\* The exponent after the fraction frac.
readNumber_exponent(s, frac0) ==
    Once(frac0, LAMBDA frac : 
        IF Lexer_peek(s, frac.cur) = "e" \/ Lexer_peek(s, frac.cur) = "E"
        THEN readNumber_exponentDigits(s, Lexer_advance(s, frac.cur),
                                       frac.value \o Lexer_peek(s, frac.cur))
        ELSE frac)

\* A unit suffix after the number num: value += ' ' + unit.
readNumber_unit(s, num0, unit0) ==
    Once(num0, LAMBDA num : Once(unit0, LAMBDA unit : 
        IF isAlpha(Lexer_peek(s, num.cur))
        THEN Scan(unit.cur, num.value \o " " \o unit.value)
        ELSE num))

readNumber_token(s, c, num0) ==
    Once(num0, LAMBDA num : 
        Once(readNumber_unit(s, num,
                readWhileIn(s, num.cur, LowerLetters \cup UpperLetters \cup Digits, "")),
            LAMBDA res : Read(res.cur, makeToken(T("NUMBER"), res.value, c.line, c.column))))

readNumber(s, c) ==
    IF Lexer_peek(s, c) = "0" /\ (Lexer_peekNext(s, c) = "x" \/ Lexer_peekNext(s, c) = "X")
    THEN readNumber_token(s, c, readNumber_hex(s, c))
    ELSE readNumber_token(s, c,
             readNumber_exponent(s, readNumber_fraction(s, readWhileIn(s, c, Digits, ""))))

readIdentifier_token(c, r0) ==
    Once(r0, LAMBDA r : 
        Read(r.cur, makeToken(IF r.value \in Keywords THEN T("KEYWORD") ELSE T("IDENTIFIER"),
                              r.value, c.line, c.column)))

readIdentifier(s, c) ==
    readIdentifier_token(c,
        readWhileIn(s, c, LowerLetters \cup UpperLetters \cup Digits \cup {"_", "$"}, ""))

\* The operator tables of readOperator.
threeCharOps ==
    (">>=" :> T("RSHIFT_ASSIGN")) @@ ("<<=" :> T("LSHIFT_ASSIGN"))

twoCharOps ==
    ("++" :> T("INCREMENT")) @@ ("--" :> T("DECREMENT")) @@
    ("**" :> T("POWER")) @@ ("==" :> T("EQ")) @@
    ("!=" :> T("NEQ")) @@ ("<=" :> T("LTE")) @@
    (">=" :> T("GTE")) @@ ("&&" :> T("AND")) @@
    ("||" :> T("OR")) @@ ("<<" :> T("LSHIFT")) @@
    (">>" :> T("RSHIFT")) @@ ("+=" :> T("PLUS_ASSIGN")) @@
    ("-=" :> T("MINUS_ASSIGN")) @@ ("*=" :> T("STAR_ASSIGN")) @@
    ("/=" :> T("SLASH_ASSIGN")) @@ ("=>" :> T("ARROW"))

singleCharOps ==
    ("+" :> T("PLUS")) @@ ("-" :> T("MINUS")) @@ ("*" :> T("STAR")) @@
    ("/" :> T("SLASH")) @@ ("%" :> T("PERCENT")) @@ ("&" :> T("AMPERSAND")) @@
    ("|" :> T("PIPE")) @@ ("^" :> T("CARET")) @@ ("~" :> T("TILDE")) @@
    ("<" :> T("LT")) @@ (">" :> T("GT")) @@ ("!" :> T("NOT")) @@
    ("=" :> T("ASSIGN")) @@ ("?" :> T("QUESTION")) @@ (":" :> T("COLON")) @@
    ("(" :> T("LPAREN")) @@ (")" :> T("RPAREN")) @@ ("{" :> T("LBRACE")) @@
    ("}" :> T("RBRACE")) @@ ("[" :> T("LBRACKET")) @@ ("]" :> T("RBRACKET")) @@
    (";" :> T("SEMICOLON")) @@ ("," :> T("COMMA")) @@ ("." :> T("DOT"))

\* table[key], undefined for a key the table lacks.
Lookup(table, key) == IF key \in DOMAIN table THEN table[key] ELSE Undefined

\* The operator found for the character char readOperator consumed, c1
\* being the cursor after it, twoChar and threeChar the look-aheads.
readOperator_match(s, c, c1, char, twoChar, threeChar) ==
    IF Lookup(threeCharOps, threeChar) # Undefined
    THEN Read(Lexer_advanceBy(s, c1, 2),
              makeToken(Lookup(threeCharOps, threeChar), threeChar, c.line, c.column))
    ELSE IF Lookup(twoCharOps, twoChar) # Undefined
    THEN Read(Lexer_advance(s, c1),
              makeToken(Lookup(twoCharOps, twoChar), twoChar, c.line, c.column))
    ELSE IF Lookup(singleCharOps, char) # Undefined
    THEN Read(c1, makeToken(Lookup(singleCharOps, char), char, c.line, c.column))
    ELSE Read(c1, Null)

\* readOperator consumes one character before it looks the operator up, so
\* the null it returns for an unknown character comes with the cursor moved.
\* The look-aheads are char + peek() and char + peek() + source[pos + 1],
\* where peek() is '\0' at the end and '' stands in beyond it.
readOperator(s, c) ==
    Once(Lexer_advance(s, c), LAMBDA c1 :
        readOperator_match(s, c, c1, Lexer_peek(s, c),
            Lexer_peek(s, c) \o Lexer_peek(s, c1),
            Lexer_peek(s, c) \o Lexer_peek(s, c1)
                \o (IF c1.pos + 1 < Len(s) THEN charAt(s, c1.pos + 1) ELSE "")))

nextToken_dispatch(s, c, char) ==
    IF char = "/" /\ (Lexer_peekNext(s, c) = "/" \/ Lexer_peekNext(s, c) = "*")
    THEN readComment(s, c)
    ELSE IF char = "\"" \/ char = "'" THEN readString(s, c, char)
    ELSE IF char = "h" /\ SubSeq(s, c.pos + 1, IF c.pos + 4 <= Len(s) THEN c.pos + 4 ELSE Len(s))
                            = "hex\""
    THEN readHexString(s, c)
    ELSE IF isDigit(char) \/ (char = "." /\ isDigit(Lexer_peekNext(s, c)))
    THEN readNumber(s, c)
    ELSE IF isAlpha(char) \/ char = "_" \/ char = "$" THEN readIdentifier(s, c)
    ELSE readOperator(s, c)

nextToken(s, c) == nextToken_dispatch(s, c, Lexer_peek(s, c))

\* After nextToken returned r: a token is pushed; for null, one more
\* character is skipped when there is one.
tokenizeIteration_push(s, r0) ==
    Once(r0, LAMBDA r : 
        IF ~IsNull(r.tok) THEN r
        ELSE IF Lexer_peek(s, r.cur) # Nul THEN Read(Lexer_advance(s, r.cur), Null)
        ELSE Read(r.cur, Null))

tokenizeIteration_token(s, c10) ==
    Once(c10, LAMBDA c1 : 
        IF Lexer_isAtEnd(s, c1) THEN Read(c1, Null)
        ELSE tokenizeIteration_push(s, nextToken(s, c1)))

\* One iteration of the while loop of tokenize: the cursor after it and the
\* token it pushed (Null when it pushed none).
tokenizeIteration(s, c) == tokenizeIteration_token(s, skipWhitespace(s, c))

\* tokens after the iteration that left r.
pushToken(toks, r) == IF IsNull(r.tok) THEN toks ELSE Append(toks, r.tok)
(***************************************************************************)
(*                                 PARSER                                  *)
(*                                                                         *)
(* A parser method is an operator of the token list t and the position p   *)
(* (Parser.pos).  It yields Ok(p', value): the method returned value with  *)
(* the position at p', or Throw(p', message): it threw, leaving the        *)
(* position at p'.  Then(r, K) continues with K after a call that left r,  *)
(* unless the call threw.  Token types are written as the strings that     *)
(* Lexer.TOKEN_TYPES defines for them.                                     *)
(***************************************************************************)
Ok(p, val) == [ok |-> TRUE, pos |-> p, val |-> val]
Throw(p, err) == [ok |-> FALSE, pos |-> p, err |-> err]
Then(r, K(_)) == IF r.ok THEN K(r) ELSE r

\* Parser.constructor: plain comments are dropped, doc-comments stay.
filterTokens(toks) == SelectSeq(toks, LAMBDA tk : tk.type # "COMMENT")

Parser_peek(t, p) ==
    IF p >= Len(t) THEN [type |-> "EOF", value |-> "", line |-> 0, column |-> 0]
    ELSE t[p + 1]

Parser_isAtEnd(t, p) == IF p >= Len(t) THEN TRUE ELSE t[p + 1].type = "EOF"

\* The position after advance(); the token advance() returns is
\* Parser_peek(t, p).
Parser_advance(t, p) == IF ~Parser_isAtEnd(t, p) THEN p + 1 ELSE p

check(t, p, type) == ~Parser_isAtEnd(t, p) /\ t[p + 1].type = type

checkKeyword(t, p, keyword) == check(t, p, "KEYWORD") /\ t[p + 1].value = keyword

\* checkKeyword holds for one of the keywords.
checkAnyKeyword(t, p, keywords) == check(t, p, "KEYWORD") /\ t[p + 1].value \in keywords

\* The position after match(type).
match(t, p, type) == IF check(t, p, type) THEN p + 1 ELSE p

\* The position after if (checkKeyword(keyword)) advance().
matchKeyword(t, p, keyword) == IF checkKeyword(t, p, keyword) THEN p + 1 ELSE p

\* The message of the Error expect() throws.
expectMessage(tok, type, value) ==
    [expected |-> type, expectedValue |-> value,
     line |-> tok.line, column |-> tok.column,
     gotType |-> tok.type, gotValue |-> tok.value]

\* expect(type): the value is the matched token.
expect(t, p, type) ==
    IF check(t, p, type) THEN Ok(p + 1, t[p + 1])
    ELSE Throw(p, expectMessage(Parser_peek(t, p), type, NullString))

\* expect(T.KEYWORD, keyword)
expectKeyword(t, p, keyword) ==
    IF checkKeyword(t, p, keyword) THEN Ok(p + 1, t[p + 1])
    ELSE Throw(p, expectMessage(Parser_peek(t, p), "KEYWORD", keyword))

\* count after the token at p in skipBalanced.
skipBalanced_count(t, p, open, close, count) ==
    (IF check(t, p, open) THEN count + 1 ELSE count)
    - (IF check(t, p, close) THEN 1 ELSE 0)

RECURSIVE skipBalanced_loop(_, _, _, _, _)
skipBalanced_loop(t, p, open, close, count) ==
    IF ~Parser_isAtEnd(t, p) /\ count > 0
    THEN skipBalanced_loop(t, Parser_advance(t, p), open, close,
                           skipBalanced_count(t, p, open, close, count))
    ELSE p

skipBalanced(t, p, open, close) ==
    Then(expect(t, p, open), LAMBDA r :
        Ok(skipBalanced_loop(t, r.pos, open, close, 1), Null))

\* The loop of synchronize, p being the position after an advance(): it
\* stops behind a semicolon or a closing brace and in front of a keyword
\* that starts a declaration.
RECURSIVE synchronize_loop(_, _)
synchronize_loop(t, p) ==
    IF Parser_isAtEnd(t, p) THEN p
    ELSE IF t[p].type = "SEMICOLON" THEN p
    ELSE IF t[p].type = "RBRACE" THEN p
    ELSE IF checkAnyKeyword(t, p, {"contract", "function", "modifier", "event",
                                   "struct", "enum"})
    THEN p
    ELSE synchronize_loop(t, Parser_advance(t, p))

\* The position after synchronize().
synchronize(t, p) == synchronize_loop(t, Parser_advance(t, p))

\* The type keywords parseContractMember takes for a state variable.
TypeKeywordsOfMember ==
    {"mapping", "address", "bool", "string", "bytes",
     "uint", "uint8", "uint16", "uint32", "uint64", "uint128", "uint256",
     "int", "int8", "int16", "int32", "int64", "int128", "int256",
     "bytes1", "bytes2", "bytes4", "bytes8", "bytes16", "bytes32"}

DataLocations == {"memory", "storage", "calldata"}

\* Call(method, t, p) is this[method]() at the position p: a call of one
\* parser method by another.
RECURSIVE Call(_, _, _)


(***************************************************************************)
(* Type names and parameters                                               *)
(***************************************************************************)
parseMappingType(t, p) ==
    Then(expectKeyword(t, p, "mapping"), LAMBDA r1 :
    Then(expect(t, r1.pos, "LPAREN"), LAMBDA r2 :
    Then(Call("parseTypeName", t, r2.pos), LAMBDA keyType :
    Then(expect(t, keyType.pos, "ARROW"), LAMBDA r3 :
    Then(Call("parseTypeName", t, r3.pos), LAMBDA valueType :
    Then(expect(t, valueType.pos, "RPAREN"), LAMBDA r4 :
        Ok(r4.pos, [type |-> "MappingType", keyType |-> keyType.val,
                    valueType |-> valueType.val,
                    line |-> Parser_peek(t, p).line,
                    column |-> Parser_peek(t, p).column])))))))

\* The array-suffix loop of parseTypeName, p being the position after the
\* opening bracket: the type name grows by [size].
RECURSIVE parseTypeName_suffixes(_, _, _)
parseTypeName_suffix(t, p, baseType) ==
    IF ~check(t, p, "RBRACKET") /\ check(t, p, "NUMBER")
    THEN Then(expect(t, p + 1, "RBRACKET"), LAMBDA r :
             parseTypeName_suffixes(t, r.pos, baseType \o "[" \o t[p + 1].value \o "]"))
    ELSE Then(expect(t, p, "RBRACKET"), LAMBDA r :
             parseTypeName_suffixes(t, r.pos, baseType \o "[" \o "]"))

parseTypeName_suffixes(t, p, baseType) ==
    IF check(t, p, "LBRACKET") THEN parseTypeName_suffix(t, p + 1, baseType)
    ELSE Ok(p, baseType)

parseTypeName(t, p) ==
    IF checkKeyword(t, p, "mapping") THEN Call("parseMappingType", t, p)
    ELSE Then(parseTypeName_suffixes(t, Parser_advance(t, p), Parser_peek(t, p).value),
              LAMBDA r :
                  Ok(r.pos, [type |-> "TypeName", name |-> r.val,
                             line |-> Parser_peek(t, p).line,
                             column |-> Parser_peek(t, p).column]))

\* The optional name after the position p2, and the node parseParameter
\* returns.
parseParameter_name(t, p, typeName, dataLocation, p2) ==
    Ok(match(t, p2, "IDENTIFIER"),
       [type |-> "Parameter", typeName |-> typeName, dataLocation |-> dataLocation,
        name |-> IF check(t, p2, "IDENTIFIER") THEN t[p2 + 1].value ELSE "",
        line |-> Parser_peek(t, p).line, column |-> Parser_peek(t, p).column])

parseParameter(t, p) ==
    Then(Call("parseTypeName", t, p), LAMBDA typeName :
        IF checkAnyKeyword(t, typeName.pos, DataLocations)
        THEN parseParameter_name(t, p, typeName.val, t[typeName.pos + 1].value,
                                 typeName.pos + 1)
        ELSE parseParameter_name(t, p, typeName.val, NullString, typeName.pos))

RECURSIVE parseParameterList_loop(_, _, _)
parseParameterList_loop(t, p, parameters) ==
    IF ~Parser_isAtEnd(t, p) /\ ~check(t, p, "RPAREN")
    THEN Then(Call("parseParameter", t, p), LAMBDA param :
             IF check(t, param.pos, "COMMA")
             THEN parseParameterList_loop(t, param.pos + 1, Append(parameters, param.val))
             ELSE Ok(param.pos, Append(parameters, param.val)))
    ELSE Ok(p, parameters)

parseParameterList(t, p) == parseParameterList_loop(t, p, <<>>)

\* expect(LPAREN); parseParameterList(); expect(RPAREN): the value is the list.
parenthesizedParameters(t, p) ==
    Then(expect(t, p, "LPAREN"), LAMBDA r1 :
    Then(Call("parseParameterList", t, r1.pos), LAMBDA ps :
    Then(expect(t, ps.pos, "RPAREN"), LAMBDA r2 : Ok(r2.pos, ps.val))))

parseEventParameter_name(t, typeName, indexed, p2) ==
    Ok(match(t, p2, "IDENTIFIER"),
       [typeName |-> typeName, indexed |-> indexed,
        name |-> IF check(t, p2, "IDENTIFIER") THEN t[p2 + 1].value ELSE ""])

parseEventParameter(t, p) ==
    Then(Call("parseTypeName", t, p), LAMBDA typeName :
        parseEventParameter_name(t, typeName.val, checkKeyword(t, typeName.pos, "indexed"),
                                 matchKeyword(t, typeName.pos, "indexed")))

(***************************************************************************)
(* Directives and declarations                                             *)
(***************************************************************************)
\* while (!isAtEnd() && !check(SEMICOLON)) value += advance().value + ' ';
RECURSIVE parsePragma_loop(_, _, _)
parsePragma_loop(t, p, value) ==
    IF ~Parser_isAtEnd(t, p) /\ ~check(t, p, "SEMICOLON")
    THEN parsePragma_loop(t, p + 1, value \o t[p + 1].value \o " ")
    ELSE Ok(p, value)

parsePragma(t, p) ==
    Then(expectKeyword(t, p, "pragma"), LAMBDA r1 :
    Then(parsePragma_loop(t, r1.pos, ""), LAMBDA l :
    Then(expect(t, l.pos, "SEMICOLON"), LAMBDA r2 :
        Ok(r2.pos, [type |-> "PragmaDirective", value |-> trim(l.val),
                    line |-> Parser_peek(t, p).line,
                    column |-> Parser_peek(t, p).column]))))

\* The tokens up to the semicolon are skipped.
RECURSIVE parseImport_skip(_, _)
parseImport_skip(t, p) ==
    IF ~Parser_isAtEnd(t, p) /\ ~check(t, p, "SEMICOLON")
    THEN parseImport_skip(t, p + 1) ELSE p

parseImport(t, p) ==
    Then(expectKeyword(t, p, "import"), LAMBDA r1 :
    Then(expect(t, parseImport_skip(t, match(t, r1.pos, "STRING")), "SEMICOLON"),
         LAMBDA r2 :
        Ok(r2.pos, [type |-> "ImportDirective",
                    path |-> IF check(t, r1.pos, "STRING") THEN t[r1.pos + 1].value ELSE "",
                    line |-> Parser_peek(t, p).line,
                    column |-> Parser_peek(t, p).column])))

DefaultFunctionModifiers ==
    [visibility |-> "public", stateMutability |-> NullString,
     isVirtual |-> FALSE, isOverride |-> FALSE, customModifiers |-> <<>>]

\* while (!isAtEnd() && !check(RPAREN)) advance();
RECURSIVE skipToRParen(_, _)
skipToRParen(t, p) ==
    IF ~Parser_isAtEnd(t, p) /\ ~check(t, p, "RPAREN")
    THEN skipToRParen(t, p + 1) ELSE p

\* The modifier loop of parseFunction.
RECURSIVE parseFunction_modifiers(_, _, _)

\* override, p1 being the position after it: a parenthesized list is
\* skipped.
parseFunction_override(t, p1, m) ==
    IF check(t, p1, "LPAREN")
    THEN Then(skipBalanced(t, p1, "LPAREN", "RPAREN"), LAMBDA r :
             parseFunction_modifiers(t, r.pos, m))
    ELSE parseFunction_modifiers(t, p1, m)

\* A custom modifier, p1 being the position after its name: its arguments
\* are skipped.
parseFunction_custom(t, p1, m) ==
    IF check(t, p1, "LPAREN")
    THEN Then(expect(t, skipToRParen(t, p1 + 1), "RPAREN"), LAMBDA r :
             parseFunction_modifiers(t, r.pos, m))
    ELSE parseFunction_modifiers(t, p1, m)

parseFunction_modifiers(t, p, m) ==
    IF Parser_isAtEnd(t, p) \/ check(t, p, "LBRACE") \/ check(t, p, "SEMICOLON")
       \/ checkKeyword(t, p, "returns")
    THEN Ok(p, m)
    ELSE IF checkAnyKeyword(t, p, {"public", "private", "internal", "external"})
    THEN parseFunction_modifiers(t, p + 1, [m EXCEPT !.visibility = t[p + 1].value])
    ELSE IF checkAnyKeyword(t, p, {"pure", "view", "payable"})
    THEN parseFunction_modifiers(t, p + 1, [m EXCEPT !.stateMutability = t[p + 1].value])
    ELSE IF checkKeyword(t, p, "virtual")
    THEN parseFunction_modifiers(t, p + 1, [m EXCEPT !.isVirtual = TRUE])
    ELSE IF checkKeyword(t, p, "override")
    THEN parseFunction_override(t, p + 1, [m EXCEPT !.isOverride = TRUE])
    ELSE IF check(t, p, "IDENTIFIER")
    THEN parseFunction_custom(t, p + 1,
             [m EXCEPT !.customModifiers =
                 Append(@, [name |-> t[p + 1].value, args |-> <<>>])])
    ELSE Ok(p, m)

\* The optional returns (...) of parseFunction.
parseFunction_returns(t, p) ==
    IF checkKeyword(t, p, "returns") THEN parenthesizedParameters(t, p + 1)
    ELSE Ok(p, <<>>)

\* A block, or a semicolon if there is one.
parseFunction_body(t, p) ==
    IF check(t, p, "LBRACE") THEN Call("parseBlock", t, p)
    ELSE Ok(match(t, p, "SEMICOLON"), Null)

parseFunction(t, p) ==
    Then(expectKeyword(t, p, "function"), LAMBDA r1 :
    Then(parenthesizedParameters(t, match(t, r1.pos, "IDENTIFIER")), LAMBDA parameters :
    Then(parseFunction_modifiers(t, parameters.pos, DefaultFunctionModifiers), LAMBDA m :
    Then(parseFunction_returns(t, m.pos), LAMBDA returns :
    Then(parseFunction_body(t, returns.pos), LAMBDA body :
        Ok(body.pos,
           [type |-> "FunctionDefinition",
            name |-> IF check(t, r1.pos, "IDENTIFIER") THEN t[r1.pos + 1].value ELSE "",
            parameters |-> parameters.val, visibility |-> m.val.visibility,
            stateMutability |-> m.val.stateMutability,
            isVirtual |-> m.val.isVirtual, isOverride |-> m.val.isOverride,
            customModifiers |-> m.val.customModifiers,
            returns |-> returns.val, body |-> body.val,
            line |-> Parser_peek(t, p).line,
            column |-> Parser_peek(t, p).column]))))))

\* The modifier loop of parseConstructor.
RECURSIVE parseConstructor_modifiers(_, _, _)

parseConstructor_custom(t, p1, modifiers) ==
    IF check(t, p1, "LPAREN")
    THEN Then(skipBalanced(t, p1, "LPAREN", "RPAREN"), LAMBDA r :
             parseConstructor_modifiers(t, r.pos, modifiers))
    ELSE parseConstructor_modifiers(t, p1, modifiers)

parseConstructor_modifiers(t, p, modifiers) ==
    IF Parser_isAtEnd(t, p) \/ check(t, p, "LBRACE") THEN Ok(p, modifiers)
    ELSE IF checkAnyKeyword(t, p, {"public", "internal", "payable"})
    THEN parseConstructor_modifiers(t, p + 1, Append(modifiers, t[p + 1].value))
    ELSE IF check(t, p, "IDENTIFIER")
    THEN parseConstructor_custom(t, p + 1, Append(modifiers, t[p + 1].value))
    ELSE Ok(p, modifiers)

parseConstructor(t, p) ==
    Then(expectKeyword(t, p, "constructor"), LAMBDA r1 :
    Then(parenthesizedParameters(t, r1.pos), LAMBDA parameters :
    Then(parseConstructor_modifiers(t, parameters.pos, <<>>), LAMBDA modifiers :
    Then(Call("parseBlock", t, modifiers.pos), LAMBDA body :
        Ok(body.pos, [type |-> "ConstructorDefinition", parameters |-> parameters.val,
                      modifiers |-> modifiers.val, body |-> body.val,
                      line |-> Parser_peek(t, p).line,
                      column |-> Parser_peek(t, p).column])))))

\* while (checkKeyword('virtual') || checkKeyword('override')) advance();
RECURSIVE parseModifier_flags(_, _)
parseModifier_flags(t, p) ==
    IF checkAnyKeyword(t, p, {"virtual", "override"})
    THEN parseModifier_flags(t, p + 1) ELSE p

parseModifier_parameters(t, p) ==
    IF check(t, p, "LPAREN") THEN parenthesizedParameters(t, p) ELSE Ok(p, <<>>)

parseModifier(t, p) ==
    Then(expectKeyword(t, p, "modifier"), LAMBDA r1 :
    Then(expect(t, r1.pos, "IDENTIFIER"), LAMBDA name :
    Then(parseModifier_parameters(t, name.pos), LAMBDA parameters :
    Then(Call("parseBlock", t, parseModifier_flags(t, parameters.pos)), LAMBDA body :
        Ok(body.pos, [type |-> "ModifierDefinition", name |-> name.val.value,
                      parameters |-> parameters.val, body |-> body.val,
                      line |-> Parser_peek(t, p).line,
                      column |-> Parser_peek(t, p).column])))))

DefaultVariableModifiers ==
    [visibility |-> "internal", isConstant |-> FALSE, isImmutable |-> FALSE,
     override |-> FALSE]

\* The modifier loop of parseStateVariable.
RECURSIVE parseStateVariable_modifiers(_, _, _)
parseStateVariable_modifiers(t, p, m) ==
    IF checkAnyKeyword(t, p, {"public", "private", "internal"})
    THEN parseStateVariable_modifiers(t, p + 1, [m EXCEPT !.visibility = t[p + 1].value])
    ELSE IF checkKeyword(t, p, "constant")
    THEN parseStateVariable_modifiers(t, p + 1, [m EXCEPT !.isConstant = TRUE])
    ELSE IF checkKeyword(t, p, "immutable")
    THEN parseStateVariable_modifiers(t, p + 1, [m EXCEPT !.isImmutable = TRUE])
    ELSE IF checkKeyword(t, p, "override")
    THEN parseStateVariable_modifiers(t, p + 1, [m EXCEPT !.override = TRUE])
    ELSE Ok(p, m)

\* The optional = expression of a declaration.
parseInitialValue(t, p) ==
    IF check(t, p, "ASSIGN") THEN Call("parseExpression", t, p + 1) ELSE Ok(p, Null)

parseStateVariable(t, p) ==
    Then(Call("parseTypeName", t, p), LAMBDA typeName :
    Then(parseStateVariable_modifiers(t, typeName.pos, DefaultVariableModifiers), LAMBDA m :
    Then(expect(t, m.pos, "IDENTIFIER"), LAMBDA name :
    Then(parseInitialValue(t, name.pos), LAMBDA initialValue :
    Then(expect(t, initialValue.pos, "SEMICOLON"), LAMBDA r :
        Ok(r.pos, [type |-> "StateVariableDeclaration", typeName |-> typeName.val,
                   name |-> name.val.value, visibility |-> m.val.visibility,
                   isConstant |-> m.val.isConstant, isImmutable |-> m.val.isImmutable,
                   override |-> m.val.override, initialValue |-> initialValue.val,
                   line |-> Parser_peek(t, p).line,
                   column |-> Parser_peek(t, p).column]))))))

RECURSIVE parseEvent_parameters(_, _, _)
parseEvent_parameters(t, p, parameters) ==
    IF ~Parser_isAtEnd(t, p) /\ ~check(t, p, "RPAREN")
    THEN Then(Call("parseEventParameter", t, p), LAMBDA param :
             IF check(t, param.pos, "COMMA")
             THEN parseEvent_parameters(t, param.pos + 1, Append(parameters, param.val))
             ELSE Ok(param.pos, Append(parameters, param.val)))
    ELSE Ok(p, parameters)

parseEvent(t, p) ==
    Then(expectKeyword(t, p, "event"), LAMBDA r1 :
    Then(expect(t, r1.pos, "IDENTIFIER"), LAMBDA name :
    Then(expect(t, name.pos, "LPAREN"), LAMBDA r2 :
    Then(parseEvent_parameters(t, r2.pos, <<>>), LAMBDA parameters :
    Then(expect(t, parameters.pos, "RPAREN"), LAMBDA r3 :
    Then(expect(t, matchKeyword(t, r3.pos, "anonymous"), "SEMICOLON"), LAMBDA r4 :
        Ok(r4.pos, [type |-> "EventDefinition", name |-> name.val.value,
                    parameters |-> parameters.val,
                    anonymous |-> checkKeyword(t, r3.pos, "anonymous"),
                    line |-> Parser_peek(t, p).line,
                    column |-> Parser_peek(t, p).column])))))))

parseError(t, p) ==
    Then(expectKeyword(t, p, "error"), LAMBDA r1 :
    Then(expect(t, r1.pos, "IDENTIFIER"), LAMBDA name :
    Then(parenthesizedParameters(t, name.pos), LAMBDA parameters :
    Then(expect(t, parameters.pos, "SEMICOLON"), LAMBDA r2 :
        Ok(r2.pos, [type |-> "ErrorDefinition", name |-> name.val.value,
                    parameters |-> parameters.val,
                    line |-> Parser_peek(t, p).line,
                    column |-> Parser_peek(t, p).column])))))

RECURSIVE parseStruct_members(_, _, _)
parseStruct_members(t, p, members) ==
    IF ~Parser_isAtEnd(t, p) /\ ~check(t, p, "RBRACE")
    THEN Then(Call("parseTypeName", t, p), LAMBDA typeName :
         Then(expect(t, typeName.pos, "IDENTIFIER"), LAMBDA memberName :
         Then(expect(t, memberName.pos, "SEMICOLON"), LAMBDA r :
             parseStruct_members(t, r.pos,
                 Append(members, [typeName |-> typeName.val,
                                  name |-> memberName.val.value])))))
    ELSE Ok(p, members)

parseStruct(t, p) ==
    Then(expectKeyword(t, p, "struct"), LAMBDA r1 :
    Then(expect(t, r1.pos, "IDENTIFIER"), LAMBDA name :
    Then(expect(t, name.pos, "LBRACE"), LAMBDA r2 :
    Then(parseStruct_members(t, r2.pos, <<>>), LAMBDA members :
    Then(expect(t, members.pos, "RBRACE"), LAMBDA r3 :
        Ok(r3.pos, [type |-> "StructDefinition", name |-> name.val.value,
                    members |-> members.val,
                    line |-> Parser_peek(t, p).line,
                    column |-> Parser_peek(t, p).column]))))))

RECURSIVE parseEnum_values(_, _, _)
parseEnum_values(t, p, values) ==
    IF ~Parser_isAtEnd(t, p) /\ ~check(t, p, "RBRACE")
    THEN Then(expect(t, p, "IDENTIFIER"), LAMBDA v :
             IF check(t, v.pos, "COMMA")
             THEN parseEnum_values(t, v.pos + 1, Append(values, v.val.value))
             ELSE Ok(v.pos, Append(values, v.val.value)))
    ELSE Ok(p, values)

parseEnum(t, p) ==
    Then(expectKeyword(t, p, "enum"), LAMBDA r1 :
    Then(expect(t, r1.pos, "IDENTIFIER"), LAMBDA name :
    Then(expect(t, name.pos, "LBRACE"), LAMBDA r2 :
    Then(parseEnum_values(t, r2.pos, <<>>), LAMBDA values :
    Then(expect(t, values.pos, "RBRACE"), LAMBDA r3 :
        Ok(r3.pos, [type |-> "EnumDefinition", name |-> name.val.value,
                    values |-> values.val,
                    line |-> Parser_peek(t, p).line,
                    column |-> Parser_peek(t, p).column]))))))

\* using ... for *, or for a type name.
parseUsingDirective_forType(t, p) ==
    IF ~check(t, p, "STAR") THEN Call("parseTypeName", t, p) ELSE Ok(p + 1, "*")

parseUsingDirective(t, p) ==
    Then(expectKeyword(t, p, "using"), LAMBDA r1 :
    Then(expectKeyword(t, match(t, r1.pos, "IDENTIFIER"), "for"), LAMBDA r2 :
    Then(parseUsingDirective_forType(t, r2.pos), LAMBDA forType :
    Then(expect(t, forType.pos, "SEMICOLON"), LAMBDA r3 :
        Ok(r3.pos, [type |-> "UsingDirective",
                    library |-> IF check(t, r1.pos, "IDENTIFIER")
                                THEN t[r1.pos + 1].value ELSE "",
                    forType |-> forType.val,
                    line |-> Parser_peek(t, p).line,
                    column |-> Parser_peek(t, p).column])))))

\* The modifier loop of parseSpecialFunction.
RECURSIVE parseSpecialFunction_modifiers(_, _)
parseSpecialFunction_modifiers(t, p) ==
    IF Parser_isAtEnd(t, p) \/ check(t, p, "LBRACE") THEN Ok(p, Null)
    ELSE IF checkAnyKeyword(t, p, {"external", "payable", "virtual", "override"})
    THEN parseSpecialFunction_modifiers(t, p + 1)
    ELSE IF checkKeyword(t, p, "returns")
    THEN Then(parenthesizedParameters(t, p + 1), LAMBDA r :
             parseSpecialFunction_modifiers(t, r.pos))
    ELSE Ok(p, Null)

parseSpecialFunction(t, p) ==
    Then(parenthesizedParameters(t, Parser_advance(t, p)), LAMBDA parameters :
    Then(parseSpecialFunction_modifiers(t, parameters.pos), LAMBDA m :
    Then(Call("parseBlock", t, m.pos), LAMBDA body :
        Ok(body.pos, [type |-> "SpecialFunctionDefinition",
                      kind |-> Parser_peek(t, p).value,
                      parameters |-> parameters.val, body |-> body.val,
                      line |-> Parser_peek(t, p).line,
                      column |-> Parser_peek(t, p).column]))))

parseContractMember(t, p) ==
    CASE checkKeyword(t, p, "function") -> Call("parseFunction", t, p)
      [] checkKeyword(t, p, "constructor") -> Call("parseConstructor", t, p)
      [] checkKeyword(t, p, "modifier") -> Call("parseModifier", t, p)
      [] checkKeyword(t, p, "event") -> Call("parseEvent", t, p)
      [] checkKeyword(t, p, "error") -> Call("parseError", t, p)
      [] checkKeyword(t, p, "struct") -> Call("parseStruct", t, p)
      [] checkKeyword(t, p, "enum") -> Call("parseEnum", t, p)
      [] checkAnyKeyword(t, p, TypeKeywordsOfMember) \/ check(t, p, "IDENTIFIER")
           -> Call("parseStateVariable", t, p)
      [] checkKeyword(t, p, "using") -> Call("parseUsingDirective", t, p)
      [] checkAnyKeyword(t, p, {"receive", "fallback"}) -> Call("parseSpecialFunction", t, p)
      [] OTHER -> Ok(Parser_advance(t, p), Null)

\* members after parseContractMember returned member.
pushMember(members, member) ==
    IF IsNull(member) THEN members ELSE Append(members, member)

RECURSIVE parseContract_members(_, _, _)
parseContract_members(t, p, members) ==
    IF ~Parser_isAtEnd(t, p) /\ ~check(t, p, "RBRACE")
    THEN Then(Call("parseContractMember", t, p), LAMBDA member :
             parseContract_members(t, member.pos, pushMember(members, member.val)))
    ELSE Ok(p, members)

\* do { baseContracts.push(parseTypeName()); } while (match(COMMA));
RECURSIVE parseContract_bases(_, _, _)
parseContract_bases(t, p, bases) ==
    Then(Call("parseTypeName", t, p), LAMBDA b :
        IF check(t, b.pos, "COMMA")
        THEN parseContract_bases(t, b.pos + 1, Append(bases, b.val))
        ELSE Ok(b.pos, Append(bases, b.val)))

parseContract_inheritance(t, p) ==
    IF checkKeyword(t, p, "is") THEN parseContract_bases(t, p + 1, <<>>)
    ELSE Ok(p, <<>>)

\* parseContract from the token that names the kind, at p1.
parseContract_from(t, p, p1) ==
    Then(expect(t, Parser_advance(t, p1), "IDENTIFIER"), LAMBDA name :
    Then(parseContract_inheritance(t, name.pos), LAMBDA bases :
    Then(expect(t, bases.pos, "LBRACE"), LAMBDA r1 :
    Then(parseContract_members(t, r1.pos, <<>>), LAMBDA members :
    Then(expect(t, members.pos, "RBRACE"), LAMBDA r2 :
        Ok(r2.pos, [type |-> "ContractDefinition", kind |-> Parser_peek(t, p1).value,
                    name |-> name.val.value,
                    isAbstract |-> checkKeyword(t, p, "abstract"),
                    baseContracts |-> bases.val, members |-> members.val,
                    line |-> Parser_peek(t, p).line,
                    column |-> Parser_peek(t, p).column]))))))

parseContract(t, p) == parseContract_from(t, p, matchKeyword(t, p, "abstract"))

parseTopLevel(t, p) ==
    CASE checkKeyword(t, p, "pragma") -> Call("parsePragma", t, p)
      [] checkKeyword(t, p, "import") -> Call("parseImport", t, p)
      [] checkAnyKeyword(t, p, {"contract", "interface", "library", "abstract"})
           -> Call("parseContract", t, p)
      [] checkKeyword(t, p, "struct") -> Call("parseStruct", t, p)
      [] checkKeyword(t, p, "enum") -> Call("parseEnum", t, p)
      [] checkKeyword(t, p, "error") -> Call("parseError", t, p)
      [] checkKeyword(t, p, "function") -> Call("parseFunction", t, p)
      [] checkKeyword(t, p, "event") -> Call("parseEvent", t, p)
      [] OTHER -> Ok(Parser_advance(t, p), Null)

(***************************************************************************)
(* Statements                                                              *)
(***************************************************************************)
RECURSIVE parseBlock_statements(_, _, _)
parseBlock_statements(t, p, statements) ==
    IF ~Parser_isAtEnd(t, p) /\ ~check(t, p, "RBRACE")
    THEN Then(Call("parseStatement", t, p), LAMBDA stmt :
             parseBlock_statements(t, stmt.pos, pushMember(statements, stmt.val)))
    ELSE Ok(p, statements)

parseBlock(t, p) ==
    Then(expect(t, p, "LBRACE"), LAMBDA r1 :
    Then(parseBlock_statements(t, r1.pos, <<>>), LAMBDA statements :
    Then(expect(t, statements.pos, "RBRACE"), LAMBDA r2 :
        Ok(r2.pos, [type |-> "Block", statements |-> statements.val,
                    line |-> Parser_peek(t, p).line,
                    column |-> Parser_peek(t, p).column]))))

\* expect(LPAREN); parseExpression(); expect(RPAREN): the value is the
\* expression.
parenthesizedExpression(t, p) ==
    Then(expect(t, p, "LPAREN"), LAMBDA r1 :
    Then(Call("parseExpression", t, r1.pos), LAMBDA e :
    Then(expect(t, e.pos, "RPAREN"), LAMBDA r2 : Ok(r2.pos, e.val))))

parseIfStatement_else(t, p) ==
    IF checkKeyword(t, p, "else") THEN Call("parseStatement", t, p + 1) ELSE Ok(p, Null)

parseIfStatement(t, p) ==
    Then(expectKeyword(t, p, "if"), LAMBDA r1 :
    Then(parenthesizedExpression(t, r1.pos), LAMBDA condition :
    Then(Call("parseStatement", t, condition.pos), LAMBDA thenBranch :
    Then(parseIfStatement_else(t, thenBranch.pos), LAMBDA elseBranch :
        Ok(elseBranch.pos, [type |-> "IfStatement", condition |-> condition.val,
                            thenBranch |-> thenBranch.val,
                            elseBranch |-> elseBranch.val,
                            line |-> Parser_peek(t, p).line,
                            column |-> Parser_peek(t, p).column])))))

\* The type keywords of isTypeName.
typeKeywords == TypeKeywordsOfMember \cup {"byte"}

\* The lookahead of isTypeName over the array brackets after an identifier.
RECURSIVE isTypeName_brackets(_, _)
isTypeName_brackets(t, p) ==
    IF check(t, p, "LBRACKET")
    THEN isTypeName_brackets(t, skipBalanced_loop(t, p + 1, "LBRACKET", "RBRACKET", 1))
    ELSE p

\* The position after an optional data location.
matchDataLocation(t, p) == IF checkAnyKeyword(t, p, DataLocations) THEN p + 1 ELSE p

isTypeName(t, p) ==
    IF ~check(t, p, "KEYWORD") /\ ~check(t, p, "IDENTIFIER") THEN FALSE
    ELSE IF t[p + 1].value \in typeKeywords THEN TRUE
    ELSE IF check(t, p, "IDENTIFIER")
    THEN check(t, matchDataLocation(t, isTypeName_brackets(t, p + 1)), "IDENTIFIER")
    ELSE FALSE

parseVariableDeclaration(t, p) ==
    Then(Call("parseTypeName", t, p), LAMBDA typeName :
    Then(expect(t, matchDataLocation(t, typeName.pos), "IDENTIFIER"), LAMBDA name :
    Then(parseInitialValue(t, name.pos), LAMBDA initialValue :
    Then(expect(t, initialValue.pos, "SEMICOLON"), LAMBDA r :
        Ok(r.pos, [type |-> "VariableDeclarationStatement",
                   typeName |-> typeName.val,
                   dataLocation |-> IF checkAnyKeyword(t, typeName.pos, DataLocations)
                                    THEN t[typeName.pos + 1].value ELSE NullString,
                   name |-> name.val.value, initialValue |-> initialValue.val,
                   line |-> Parser_peek(t, p).line,
                   column |-> Parser_peek(t, p).column])))))

parseExpressionOrDeclaration(t, p) ==
    IF isTypeName(t, p) THEN Call("parseVariableDeclaration", t, p)
    ELSE Then(Call("parseExpression", t, p), LAMBDA expr :
         Then(expect(t, expr.pos, "SEMICOLON"), LAMBDA r :
             Ok(r.pos, [type |-> "ExpressionStatement", expression |-> expr.val,
                        line |-> Parser_peek(t, p).line,
                        column |-> Parser_peek(t, p).column])))

\* The three clauses of the for header.
parseForStatement_init(t, p) ==
    IF ~check(t, p, "SEMICOLON") THEN Call("parseExpressionOrDeclaration", t, p)
    ELSE Ok(p + 1, Null)

\* An expression unless the token at p has the type stop.
parseUnless(t, p, stop) ==
    IF ~check(t, p, stop) THEN Call("parseExpression", t, p) ELSE Ok(p, Null)

parseForStatement(t, p) ==
    Then(expectKeyword(t, p, "for"), LAMBDA r1 :
    Then(expect(t, r1.pos, "LPAREN"), LAMBDA r2 :
    Then(parseForStatement_init(t, r2.pos), LAMBDA init :
    Then(parseUnless(t, init.pos, "SEMICOLON"), LAMBDA condition :
    Then(expect(t, condition.pos, "SEMICOLON"), LAMBDA r3 :
    Then(parseUnless(t, r3.pos, "RPAREN"), LAMBDA update :
    Then(expect(t, update.pos, "RPAREN"), LAMBDA r4 :
    Then(Call("parseStatement", t, r4.pos), LAMBDA body :
        Ok(body.pos, [type |-> "ForStatement", init |-> init.val,
                      condition |-> condition.val, update |-> update.val,
                      body |-> body.val,
                      line |-> Parser_peek(t, p).line,
                      column |-> Parser_peek(t, p).column])))))))))

parseWhileStatement(t, p) ==
    Then(expectKeyword(t, p, "while"), LAMBDA r1 :
    Then(parenthesizedExpression(t, r1.pos), LAMBDA condition :
    Then(Call("parseStatement", t, condition.pos), LAMBDA body :
        Ok(body.pos, [type |-> "WhileStatement", condition |-> condition.val,
                      body |-> body.val,
                      line |-> Parser_peek(t, p).line,
                      column |-> Parser_peek(t, p).column]))))

parseDoWhileStatement(t, p) ==
    Then(expectKeyword(t, p, "do"), LAMBDA r1 :
    Then(Call("parseStatement", t, r1.pos), LAMBDA body :
    Then(expectKeyword(t, body.pos, "while"), LAMBDA r2 :
    Then(parenthesizedExpression(t, r2.pos), LAMBDA condition :
    Then(expect(t, condition.pos, "SEMICOLON"), LAMBDA r3 :
        Ok(r3.pos, [type |-> "DoWhileStatement", condition |-> condition.val,
                    body |-> body.val,
                    line |-> Parser_peek(t, p).line,
                    column |-> Parser_peek(t, p).column]))))))

\* if (!check(SEMICOLON)) e = parseExpression(); expect(SEMICOLON): the value
\* is e, or null.
optionalExpressionThenSemicolon(t, p) ==
    Then(parseUnless(t, p, "SEMICOLON"), LAMBDA e :
    Then(expect(t, e.pos, "SEMICOLON"), LAMBDA r : Ok(r.pos, e.val)))

parseReturnStatement(t, p) ==
    Then(expectKeyword(t, p, "return"), LAMBDA r1 :
    Then(optionalExpressionThenSemicolon(t, r1.pos), LAMBDA value :
        Ok(value.pos, [type |-> "ReturnStatement", value |-> value.val,
                       line |-> Parser_peek(t, p).line,
                       column |-> Parser_peek(t, p).column])))

parseEmitStatement(t, p) ==
    Then(expectKeyword(t, p, "emit"), LAMBDA r1 :
    Then(Call("parseExpression", t, r1.pos), LAMBDA expression :
    Then(expect(t, expression.pos, "SEMICOLON"), LAMBDA r2 :
        Ok(r2.pos, [type |-> "EmitStatement", expression |-> expression.val,
                    line |-> Parser_peek(t, p).line,
                    column |-> Parser_peek(t, p).column]))))

parseRevertStatement(t, p) ==
    Then(expectKeyword(t, p, "revert"), LAMBDA r1 :
    Then(optionalExpressionThenSemicolon(t, r1.pos), LAMBDA error :
        Ok(error.pos, [type |-> "RevertStatement", error |-> error.val,
                       line |-> Parser_peek(t, p).line,
                       column |-> Parser_peek(t, p).column])))

\* The optional message of require.
parseRequireStatement_message(t, p) ==
    IF check(t, p, "COMMA") THEN Call("parseExpression", t, p + 1) ELSE Ok(p, Null)

parseRequireStatement(t, p) ==
    Then(expect(t, Parser_advance(t, p), "LPAREN"), LAMBDA r1 :
    Then(Call("parseExpression", t, r1.pos), LAMBDA condition :
    Then(parseRequireStatement_message(t, condition.pos), LAMBDA message :
    Then(expect(t, message.pos, "RPAREN"), LAMBDA r2 :
    Then(expect(t, r2.pos, "SEMICOLON"), LAMBDA r3 :
        Ok(r3.pos, [type |-> "RequireStatement", kind |-> Parser_peek(t, p).value,
                    condition |-> condition.val, message |-> message.val,
                    line |-> Parser_peek(t, p).line,
                    column |-> Parser_peek(t, p).column]))))))

parseUncheckedBlock(t, p) ==
    Then(expectKeyword(t, p, "unchecked"), LAMBDA r1 :
    Then(Call("parseBlock", t, r1.pos), LAMBDA body :
        Ok(body.pos, [type |-> "UncheckedBlock", body |-> body.val,
                      line |-> Parser_peek(t, p).line,
                      column |-> Parser_peek(t, p).column])))

\* The brace-counting loop of parseAssemblyBlock: the token is collected
\* unless it is the brace that closes the block.
RECURSIVE parseAssemblyBlock_body(_, _, _, _)
parseAssemblyBlock_count(t, p, braceCount) ==
    (IF t[p + 1].type = "LBRACE" THEN braceCount + 1 ELSE braceCount)
    - (IF t[p + 1].type = "RBRACE" THEN 1 ELSE 0)

parseAssemblyBlock_body(t, p, braceCount, bodyTokens) ==
    IF ~Parser_isAtEnd(t, p) /\ braceCount > 0
    THEN parseAssemblyBlock_body(t, p + 1, parseAssemblyBlock_count(t, p, braceCount),
             IF parseAssemblyBlock_count(t, p, braceCount) > 0
             THEN Append(bodyTokens, t[p + 1]) ELSE bodyTokens)
    ELSE Ok(p, bodyTokens)

parseAssemblyBlock(t, p) ==
    Then(expectKeyword(t, p, "assembly"), LAMBDA r1 :
    Then(expect(t, match(t, r1.pos, "STRING"), "LBRACE"), LAMBDA r2 :
    Then(parseAssemblyBlock_body(t, r2.pos, 1, <<>>), LAMBDA b :
        Ok(b.pos, [type |-> "AssemblyBlock",
                   dialect |-> IF check(t, r1.pos, "STRING") THEN t[r1.pos + 1].value
                               ELSE NullString,
                   body |-> b.val,
                   line |-> Parser_peek(t, p).line,
                   column |-> Parser_peek(t, p).column]))))

RECURSIVE parseTryStatement_catches(_, _, _)

\* One catch clause, p1 being the position after catch.
parseTryStatement_catch(t, p1, catchClauses) ==
    Then(parseModifier_parameters(t, match(t, p1, "IDENTIFIER")), LAMBDA errorParams :
    Then(Call("parseBlock", t, errorParams.pos), LAMBDA catchBody :
        parseTryStatement_catches(t, catchBody.pos,
            Append(catchClauses,
                   [errorName |-> IF check(t, p1, "IDENTIFIER") THEN t[p1 + 1].value
                                  ELSE NullString,
                    errorParams |-> errorParams.val,
                    body |-> catchBody.val]))))

parseTryStatement_catches(t, p, catchClauses) ==
    IF checkKeyword(t, p, "catch") THEN parseTryStatement_catch(t, p + 1, catchClauses)
    ELSE Ok(p, catchClauses)

parseTryStatement(t, p) ==
    Then(expectKeyword(t, p, "try"), LAMBDA r1 :
    Then(Call("parseExpression", t, r1.pos), LAMBDA expression :
    Then(parseFunction_returns(t, expression.pos), LAMBDA returns :
    Then(Call("parseBlock", t, returns.pos), LAMBDA body :
    Then(parseTryStatement_catches(t, body.pos, <<>>), LAMBDA catchClauses :
        Ok(catchClauses.pos,
           [type |-> "TryStatement", expression |-> expression.val,
            returns |-> returns.val, body |-> body.val,
            catchClauses |-> catchClauses.val,
            line |-> Parser_peek(t, p).line,
            column |-> Parser_peek(t, p).column]))))))

parseStatement(t, p) ==
    CASE check(t, p, "LBRACE") -> Call("parseBlock", t, p)
      [] checkKeyword(t, p, "if") -> Call("parseIfStatement", t, p)
      [] checkKeyword(t, p, "for") -> Call("parseForStatement", t, p)
      [] checkKeyword(t, p, "while") -> Call("parseWhileStatement", t, p)
      [] checkKeyword(t, p, "do") -> Call("parseDoWhileStatement", t, p)
      [] checkKeyword(t, p, "return") -> Call("parseReturnStatement", t, p)
      [] checkKeyword(t, p, "emit") -> Call("parseEmitStatement", t, p)
      [] checkKeyword(t, p, "revert") -> Call("parseRevertStatement", t, p)
      [] checkAnyKeyword(t, p, {"require", "assert"}) -> Call("parseRequireStatement", t, p)
      [] checkKeyword(t, p, "unchecked") -> Call("parseUncheckedBlock", t, p)
      [] checkKeyword(t, p, "assembly") -> Call("parseAssemblyBlock", t, p)
      [] checkKeyword(t, p, "try") -> Call("parseTryStatement", t, p)
      [] OTHER -> Call("parseExpressionOrDeclaration", t, p)

(***************************************************************************)
(* Expressions                                                             *)
(***************************************************************************)
RECURSIVE parseLevel(_, _, _)

\* check(type) holds for one of the types.
checkAny(t, p, types) == ~Parser_isAtEnd(t, p) /\ t[p + 1].type \in types

BinaryExpression(operator, left, right) ==
    [type |-> "BinaryExpression", operator |-> operator, left |-> left,
     right |-> right, line |-> left.line, column |-> left.column]

parseExpression(t, p) == Call("parseAssignment", t, p)

AssignmentOperators ==
    {"ASSIGN", "PLUS_ASSIGN", "MINUS_ASSIGN", "STAR_ASSIGN", "SLASH_ASSIGN"}

parseAssignment_rest(t, p, expr) ==
    IF checkAny(t, p, AssignmentOperators)
    THEN Then(Call("parseAssignment", t, p + 1), LAMBDA value :
             Ok(value.pos, [type |-> "AssignmentExpression",
                            operator |-> t[p + 1].value, left |-> expr,
                            right |-> value.val,
                            line |-> expr.line, column |-> expr.column]))
    ELSE Ok(p, expr)

parseTernary_rest(t, p, expr) ==
    IF check(t, p, "QUESTION")
    THEN Then(Call("parseExpression", t, p + 1), LAMBDA thenExpr :
         Then(expect(t, thenExpr.pos, "COLON"), LAMBDA r :
         Then(Call("parseTernary", t, r.pos), LAMBDA elseExpr :
             Ok(elseExpr.pos, [type |-> "TernaryExpression", condition |-> expr,
                               thenExpression |-> thenExpr.val,
                               elseExpression |-> elseExpr.val,
                               line |-> expr.line, column |-> expr.column]))))
    ELSE Ok(p, expr)

\* The left-associative binary levels, loosest first: parseOr, parseAnd,
\* parseEquality, parseComparison, parseBitOr, parseBitXor, parseBitAnd,
\* parseShift, parseAdditive, parseMultiplicative.  Each parses its operands
\* with the next level; the operands of the last are parsed by parsePower.
LevelOperators ==
    <<{"OR"}, {"AND"}, {"EQ", "NEQ"}, {"LT", "GT", "LTE", "GTE"}, {"PIPE"},
      {"CARET"}, {"AMPERSAND"}, {"LSHIFT", "RSHIFT"}, {"PLUS", "MINUS"},
      {"STAR", "SLASH", "PERCENT"}>>

\* The operator a level writes into the node, where it does not take the
\* value of the token.
LevelLiteral == <<"||", "&&", "", "", "|", "^", "&", "", "", "">>

parseOperand(t, p, level) ==
    IF level < 10 THEN parseLevel(t, p, level + 1) ELSE Call("parsePower", t, p)

RECURSIVE parseLevel_loop(_, _, _, _)
parseLevel_loop(t, p, expr, level) ==
    IF checkAny(t, p, LevelOperators[level])
    THEN Then(parseOperand(t, p + 1, level), LAMBDA right :
             parseLevel_loop(t, right.pos,
                 BinaryExpression(IF LevelLiteral[level] # "" THEN LevelLiteral[level]
                                  ELSE t[p + 1].value,
                                  expr, right.val),
                 level))
    ELSE Ok(p, expr)

\* A variant of parsePower_rest that takes the right operand of ** from
\* parseUnary, as a left-associative level does.
parsePower_rest_operandFromUnary(t, p, expr) ==
    IF check(t, p, "POWER")
    THEN Then(Call("parseUnary", t, p + 1), LAMBDA right :
             Ok(right.pos, BinaryExpression("**", expr, right.val)))
    ELSE Ok(p, expr)

parsePower_rest(t, p, expr) ==
    IF check(t, p, "POWER")
    THEN Then(Call("parsePower", t, p + 1), LAMBDA right :
             Ok(right.pos, BinaryExpression("**", expr, right.val)))
    ELSE Ok(p, expr)

\* The methods of the ladder, loosest first: parseAssignment (-1),
\* parseTernary (0), the ten binary levels (1..10) and parsePower (11).
\* Each begins by calling the next one, and parsePower by calling
\* parseUnary; what a method does after that call returned depends on the
\* next token only: on one of these tokens it goes on, on any other it
\* returns the operand as it is.
LevelTokens(k) ==
    CASE k = -1 -> AssignmentOperators
      [] k = 0 -> {"QUESTION"}
      [] k = 11 -> {"POWER"}
      [] OTHER -> LevelOperators[k]

\* What the method of the level k does after its first call returned expr.
parseLevel_rest(t, p, expr, k) ==
    CASE k = -1 -> parseAssignment_rest(t, p, expr)
      [] k = 0 -> parseTernary_rest(t, p, expr)
      [] k = 11 -> parsePower_rest(t, p, expr)
      [] OTHER -> parseLevel_loop(t, p, expr, k)

\* The tightest level from k down to level that goes on at the token at p,
\* level - 1 if there is none.
parseLevel_next(t, p, k, level) ==
    Greatest({level - 1} \cup {n \in level..k : checkAny(t, p, LevelTokens(n))})

\* r is what the nested calls below the level k returned.  The returns run
\* the rest of the methods from the level k out to level, the tightest
\* first; the levels that return their operand as it is are passed over.
RECURSIVE parseLevel_loops(_, _, _, _)
parseLevel_loops(t, r, k, level) ==
    IF ~r.ok THEN r
    ELSE Let(parseLevel_next(t, r.pos, k, level), LAMBDA n :
             IF n < level THEN r
             ELSE parseLevel_loops(t, parseLevel_rest(t, r.pos, r.val, n), n - 1, level))

parseLevel(t, p, level) == parseLevel_loops(t, Call("parseUnary", t, p), 11, level)

parseAssignment(t, p) == parseLevel(t, p, -1)

parseTernary(t, p) == parseLevel(t, p, 0)

parseOr(t, p) == parseLevel(t, p, 1)
parseAnd(t, p) == parseLevel(t, p, 2)
parseEquality(t, p) == parseLevel(t, p, 3)
parseComparison(t, p) == parseLevel(t, p, 4)
parseBitOr(t, p) == parseLevel(t, p, 5)
parseBitXor(t, p) == parseLevel(t, p, 6)
parseBitAnd(t, p) == parseLevel(t, p, 7)
parseShift(t, p) == parseLevel(t, p, 8)
parseAdditive(t, p) == parseLevel(t, p, 9)
parseMultiplicative(t, p) == parseLevel(t, p, 10)

parsePower(t, p) == parseLevel(t, p, 11)

\* while (!isAtEnd() && !check(close)) { push(parseExpression());
\*                                       if (!match(COMMA)) break; }
RECURSIVE parseExpressionList(_, _, _, _)
parseExpressionList(t, p, close, list) ==
    IF ~Parser_isAtEnd(t, p) /\ ~check(t, p, close)
    THEN Then(Call("parseExpression", t, p), LAMBDA e :
             IF check(t, e.pos, "COMMA")
             THEN parseExpressionList(t, e.pos + 1, close, Append(list, e.val))
             ELSE Ok(e.pos, Append(list, e.val)))
    ELSE Ok(p, list)

\* The list up to and including the closing token.
closedExpressionList(t, p, close) ==
    Then(parseExpressionList(t, p, close, <<>>), LAMBDA list :
    Then(expect(t, list.pos, close), LAMBDA r : Ok(r.pos, list.val)))

\* The field loop of a struct initialization.
RECURSIVE parsePostfix_fields(_, _, _)
parsePostfix_fields(t, p, fields) ==
    IF ~Parser_isAtEnd(t, p) /\ ~check(t, p, "RBRACE")
    THEN Then(expect(t, p, "IDENTIFIER"), LAMBDA fieldName :
         Then(expect(t, fieldName.pos, "COLON"), LAMBDA r :
         Then(Call("parseExpression", t, r.pos), LAMBDA fieldValue :
             IF check(t, fieldValue.pos, "COMMA")
             THEN parsePostfix_fields(t, fieldValue.pos + 1,
                      Append(fields, [name |-> fieldName.val.value,
                                      value |-> fieldValue.val]))
             ELSE Ok(fieldValue.pos,
                     Append(fields, [name |-> fieldName.val.value,
                                     value |-> fieldValue.val])))))
    ELSE Ok(p, fields)

RECURSIVE parsePostfix_loop(_, _, _)
parsePostfix_loop(t, p, expr) ==
    IF check(t, p, "INCREMENT") \/ check(t, p, "DECREMENT")
    THEN parsePostfix_loop(t, p + 1,
             [type |-> "UnaryExpression", operator |-> t[p + 1].value,
              operand |-> expr, prefix |-> FALSE,
              line |-> expr.line, column |-> expr.column])
    ELSE IF check(t, p, "DOT")
    THEN Then(expect(t, p + 1, "IDENTIFIER"), LAMBDA member :
             parsePostfix_loop(t, member.pos,
                 [type |-> "MemberExpression", object |-> expr,
                  member |-> member.val.value,
                  line |-> expr.line, column |-> expr.column]))
    ELSE IF check(t, p, "LBRACKET")
    THEN Then(Call("parseExpression", t, p + 1), LAMBDA index :
         Then(expect(t, index.pos, "RBRACKET"), LAMBDA r :
             parsePostfix_loop(t, r.pos,
                 [type |-> "IndexExpression", object |-> expr, index |-> index.val,
                  line |-> expr.line, column |-> expr.column])))
    ELSE IF check(t, p, "LPAREN")
    THEN Then(closedExpressionList(t, p + 1, "RPAREN"), LAMBDA args :
             parsePostfix_loop(t, args.pos,
                 [type |-> "CallExpression", callee |-> expr, arguments |-> args.val,
                  line |-> expr.line, column |-> expr.column]))
    ELSE IF check(t, p, "LBRACE")
    THEN Then(parsePostfix_fields(t, p + 1, <<>>), LAMBDA fields :
         Then(expect(t, fields.pos, "RBRACE"), LAMBDA r :
             parsePostfix_loop(t, r.pos,
                 [type |-> "StructExpression", typeName |-> expr,
                  fields |-> fields.val,
                  line |-> expr.line, column |-> expr.column])))
    ELSE Ok(p, expr)

\* The tuple loop of parsePrimary: while (match(COMMA)) if (!check(RPAREN))
\* push(parseExpression());
RECURSIVE parsePrimary_tuple(_, _, _)
parsePrimary_tuple(t, p, expressions) ==
    IF check(t, p, "COMMA")
    THEN IF ~check(t, p + 1, "RPAREN")
         THEN Then(Call("parseExpression", t, p + 1), LAMBDA e :
                  parsePrimary_tuple(t, e.pos, Append(expressions, e.val)))
         ELSE parsePrimary_tuple(t, p + 1, expressions)
    ELSE Ok(p, expressions)

\* The expressions between the parentheses, p1 being the position after the
\* opening one.
parsePrimary_expressions(t, p1) ==
    IF ~check(t, p1, "RPAREN")
    THEN Then(Call("parseExpression", t, p1), LAMBDA e : parsePrimary_tuple(t, e.pos, <<e.val>>))
    ELSE Ok(p1, <<>>)

\* A literal node of the token.
Literal(type, token) ==
    [type |-> type, value |-> token.value, line |-> token.line, column |-> token.column]

parsePrimary(t, p) ==
    IF check(t, p, "NUMBER") THEN Ok(p + 1, Literal("NumberLiteral", t[p + 1]))
    ELSE IF check(t, p, "STRING") THEN Ok(p + 1, Literal("StringLiteral", t[p + 1]))
    ELSE IF checkKeyword(t, p, "true") \/ checkKeyword(t, p, "false")
    THEN Ok(p + 1, [type |-> "BooleanLiteral", value |-> t[p + 1].value = "true",
                    line |-> t[p + 1].line, column |-> t[p + 1].column])
    ELSE IF check(t, p, "IDENTIFIER") \/ check(t, p, "KEYWORD")
    THEN Ok(p + 1, [type |-> "Identifier", name |-> t[p + 1].value,
                    line |-> t[p + 1].line, column |-> t[p + 1].column])
    ELSE IF check(t, p, "LPAREN")
    THEN Then(parsePrimary_expressions(t, p + 1), LAMBDA expressions :
         Then(expect(t, expressions.pos, "RPAREN"), LAMBDA r :
             IF Len(expressions.val) = 1 THEN Ok(r.pos, expressions.val[1])
             ELSE Ok(r.pos, [type |-> "TupleExpression", elements |-> expressions.val,
                             line |-> t[p + 1].line, column |-> t[p + 1].column])))
    ELSE IF check(t, p, "LBRACKET")
    THEN Then(closedExpressionList(t, p + 1, "RBRACKET"), LAMBDA elements :
             Ok(elements.pos, [type |-> "ArrayLiteral", elements |-> elements.val,
                               line |-> t[p + 1].line, column |-> t[p + 1].column]))
    ELSE IF checkKeyword(t, p, "new")
    THEN Then(Call("parseTypeName", t, p + 1), LAMBDA typeName :
             Ok(typeName.pos, [type |-> "NewExpression", typeName |-> typeName.val,
                               line |-> t[p + 1].line, column |-> t[p + 1].column]))
    ELSE IF checkKeyword(t, p, "type")
    THEN Then(expect(t, p + 1, "LPAREN"), LAMBDA r1 :
         Then(Call("parseTypeName", t, r1.pos), LAMBDA arg :
         Then(expect(t, arg.pos, "RPAREN"), LAMBDA r2 :
             Ok(r2.pos, [type |-> "TypeExpression", argument |-> arg.val,
                         line |-> t[p + 1].line, column |-> t[p + 1].column]))))
    ELSE Ok(Parser_advance(t, p), Literal("Unknown", Parser_peek(t, p)))

parsePostfix(t, p) ==
    Then(Call("parsePrimary", t, p), LAMBDA expr : parsePostfix_loop(t, expr.pos, expr.val))

parseUnary(t, p) ==
    IF checkAny(t, p, {"NOT", "TILDE", "MINUS", "INCREMENT", "DECREMENT"})
    THEN Then(Call("parseUnary", t, p + 1), LAMBDA operand :
             Ok(operand.pos, [type |-> "UnaryExpression", operator |-> t[p + 1].value,
                              operand |-> operand.val, prefix |-> TRUE,
                              line |-> t[p + 1].line, column |-> t[p + 1].column]))
    ELSE Call("parsePostfix", t, p)

\* this[method](): a call of a parser method at the position p.
Call(method, t, p) ==
    CASE method = "parseMappingType" -> parseMappingType(t, p)
      [] method = "parseTypeName" -> parseTypeName(t, p)
      [] method = "parseParameter" -> parseParameter(t, p)
      [] method = "parseParameterList" -> parseParameterList(t, p)
      [] method = "parseEventParameter" -> parseEventParameter(t, p)
      [] method = "parsePragma" -> parsePragma(t, p)
      [] method = "parseImport" -> parseImport(t, p)
      [] method = "parseFunction" -> parseFunction(t, p)
      [] method = "parseConstructor" -> parseConstructor(t, p)
      [] method = "parseModifier" -> parseModifier(t, p)
      [] method = "parseStateVariable" -> parseStateVariable(t, p)
      [] method = "parseEvent" -> parseEvent(t, p)
      [] method = "parseError" -> parseError(t, p)
      [] method = "parseStruct" -> parseStruct(t, p)
      [] method = "parseEnum" -> parseEnum(t, p)
      [] method = "parseUsingDirective" -> parseUsingDirective(t, p)
      [] method = "parseSpecialFunction" -> parseSpecialFunction(t, p)
      [] method = "parseContractMember" -> parseContractMember(t, p)
      [] method = "parseContract" -> parseContract(t, p)
      [] method = "parseTopLevel" -> parseTopLevel(t, p)
      [] method = "parseBlock" -> parseBlock(t, p)
      [] method = "parseIfStatement" -> parseIfStatement(t, p)
      [] method = "parseVariableDeclaration" -> parseVariableDeclaration(t, p)
      [] method = "parseExpressionOrDeclaration" -> parseExpressionOrDeclaration(t, p)
      [] method = "parseForStatement" -> parseForStatement(t, p)
      [] method = "parseWhileStatement" -> parseWhileStatement(t, p)
      [] method = "parseDoWhileStatement" -> parseDoWhileStatement(t, p)
      [] method = "parseReturnStatement" -> parseReturnStatement(t, p)
      [] method = "parseEmitStatement" -> parseEmitStatement(t, p)
      [] method = "parseRevertStatement" -> parseRevertStatement(t, p)
      [] method = "parseRequireStatement" -> parseRequireStatement(t, p)
      [] method = "parseUncheckedBlock" -> parseUncheckedBlock(t, p)
      [] method = "parseAssemblyBlock" -> parseAssemblyBlock(t, p)
      [] method = "parseTryStatement" -> parseTryStatement(t, p)
      [] method = "parseStatement" -> parseStatement(t, p)
      [] method = "parseExpression" -> parseExpression(t, p)
      [] method = "parseAssignment" -> parseAssignment(t, p)
      [] method = "parseOr" -> parseOr(t, p)
      [] method = "parseAnd" -> parseAnd(t, p)
      [] method = "parseEquality" -> parseEquality(t, p)
      [] method = "parseComparison" -> parseComparison(t, p)
      [] method = "parseBitOr" -> parseBitOr(t, p)
      [] method = "parseBitXor" -> parseBitXor(t, p)
      [] method = "parseBitAnd" -> parseBitAnd(t, p)
      [] method = "parseShift" -> parseShift(t, p)
      [] method = "parseAdditive" -> parseAdditive(t, p)
      [] method = "parseMultiplicative" -> parseMultiplicative(t, p)
      [] method = "parseTernary" -> parseTernary(t, p)
      [] method = "parsePower" -> parsePower(t, p)
      [] method = "parsePrimary" -> parsePrimary(t, p)
      [] method = "parsePostfix" -> parsePostfix(t, p)
      [] method = "parseUnary" -> parseUnary(t, p)

(***************************************************************************)
(* parse(): the top-level loop                                             *)
(***************************************************************************)
MAX_ERRORS == 10

EmptySourceUnit ==
    [type |-> "SourceUnit", children |-> <<>>, pragmas |-> <<>>, imports |-> <<>>]

\* The AST with the node parseTopLevel returned put in its list.
addTopLevel(tree, node) ==
    IF IsNull(node) THEN tree
    ELSE IF node.type = "PragmaDirective"
    THEN [tree EXCEPT !.pragmas = Append(@, node)]
    ELSE IF node.type = "ImportDirective"
    THEN [tree EXCEPT !.imports = Append(@, node)]
    ELSE [tree EXCEPT !.children = Append(@, node)]

\* A variant of parseCatch that gives up when the count reaches MAX_ERRORS.
parseCatch_atMaxErrors(t, st, r) ==
    IF st.errorCount + 1 >= MAX_ERRORS
    THEN [pos |-> r.pos, ast |-> st.ast, errorCount |-> st.errorCount + 1,
          thrown |-> TRUE,
          error |-> [tooMany |-> st.errorCount + 1, last |-> r.err]]
    ELSE [pos |-> synchronize(t, r.pos), ast |-> st.ast,
          errorCount |-> st.errorCount + 1, thrown |-> FALSE, error |-> st.error]

\* The catch block of parse for the error r thrown at errorCount errors.
parseCatch(t, st, r) ==
    IF st.errorCount + 1 > MAX_ERRORS
    THEN [pos |-> r.pos, ast |-> st.ast, errorCount |-> st.errorCount + 1,
          thrown |-> TRUE,
          error |-> [tooMany |-> st.errorCount + 1, last |-> r.err]]
    ELSE [pos |-> synchronize(t, r.pos), ast |-> st.ast,
          errorCount |-> st.errorCount + 1, thrown |-> FALSE, error |-> st.error]

\* A variant of parseTake that takes the node and leaves the position where
\* it was before parseTopLevel.
parseTake_samePosition(t, st, r) ==
    IF r.ok
    THEN [pos |-> st.pos, ast |-> addTopLevel(st.ast, r.val),
          errorCount |-> st.errorCount, thrown |-> FALSE, error |-> st.error]
    ELSE parseCatch(t, st, r)

\* The result r of parseTopLevel taken into the state of parse.
parseTake(t, st, r) ==
    IF r.ok
    THEN [pos |-> r.pos, ast |-> addTopLevel(st.ast, r.val),
          errorCount |-> st.errorCount, thrown |-> FALSE, error |-> st.error]
    ELSE parseCatch(t, st, r)

\* One iteration of the while loop of parse from the state
\* [pos, ast, errorCount]: the state after it, with thrown set and the
\* message in error when the iteration threw out of parse.
parseIteration(t, st) == parseTake(t, st, Call("parseTopLevel", t, st.pos))

(***************************************************************************)
(*                                ANALYZER                                 *)
(*                                                                         *)
(* An AST node is a record.  A field that holds a string holds a string, a *)
(* field that holds an array holds a sequence of nodes.  The code tells    *)
(* arrays, objects and primitive values apart at run time (Array.isArray,  *)
(* typeof); the model tells them apart by the field's name and the node's  *)
(* type, which decide it in every node the parser builds.                  *)
(***************************************************************************)
ArrayKeys ==
    {"children", "members", "statements", "parameters", "returns", "arguments",
     "elements", "fields", "catchClauses", "pragmas", "imports", "baseContracts",
     "customModifiers", "errorParams", "args"}

\* forType, a string or a type name, is a field of a using directive, which
\* no function body and no condition holds.
NodeKeys ==
    {"body", "init", "condition", "update", "thenBranch", "elseBranch", "left",
     "right", "operand", "expression", "callee", "object", "index",
     "initialValue", "error", "typeName", "keyType", "valueType",
     "thenExpression", "elseExpression", "message", "argument"}

\* "array", "node" or "scalar": what node[key] holds.  The body of an
\* AssemblyBlock is an array of tokens; value is a node in a ReturnStatement
\* and in a field of a StructExpression, a primitive value elsewhere.
KeyKind(node, key) ==
    IF key = "body" /\ NodeType(node) = "AssemblyBlock" THEN "array"
    ELSE IF key = "value"
    THEN (IF NodeType(node) \in {"ReturnStatement", Undefined} THEN "node" ELSE "scalar")
    ELSE IF key \in ArrayKeys THEN "array"
    ELSE IF key \in NodeKeys THEN "node"
    ELSE "scalar"

\* node[key] is an array (arrays are truthy, empty or not).
HasArray(node, key) == key \in DOMAIN node /\ KeyKind(node, key) = "array"

\* node[key] is an object: present and not null.
HasNode(node, key) ==
    key \in DOMAIN node /\ KeyKind(node, key) = "node" /\ ~IsNull(node[key])

\* node[key] where it holds an object or null; null also when it is missing.
NodeField(node, key) == IF HasNode(node, key) THEN node[key] ELSE Null

\* node[key] where it holds a string, undefined when the field is missing.
StrField(node, key) == IF key \in DOMAIN node THEN node[key] ELSE UndefinedString

\* The truth value of node[key] where it holds a boolean.
BoolField(node, key) == key \in DOMAIN node /\ node[key]

\* node[key] where it holds a number, 0 (as falsy as undefined) when the
\* field is missing.
NumField(node, key) == IF key \in DOMAIN node THEN node[key] ELSE 0

\* The truth value of a string or null or undefined.
TruthyString(s) == s \notin {NullString, UndefinedString, ""}

\* `${s}` for a string or null or undefined.
Str(s) ==
    IF s = UndefinedString THEN "undefined" ELSE IF s = NullString THEN "null" ELSE s

\* The concatenation of a sequence of sequences.
RECURSIVE Concat(_)
Concat(seqs) == IF seqs = <<>> THEN <<>> ELSE Head(seqs) \o Concat(Tail(seqs))

\* The indices from i on at which sub occurs in s.
occurrences(s, sub, i) ==
    {k \in i..(Len(s) - Len(sub) + 1) : SubSeq(s, k, k + Len(sub) - 1) = sub}

\* The least index at which sub occurs in s, from i on; 0 when there is none.
indexOf(s, sub, i) ==
    IF occurrences(s, sub, i) = {} THEN 0
    ELSE CHOOSE k \in occurrences(s, sub, i) :
             \A other \in occurrences(s, sub, i) : k <= other

\* String.prototype.includes
includes(s, sub) == indexOf(s, sub, 1) # 0

\* s with the occurrence of sub at i replaced.
replaceAt(s, i, sub, by) ==
    IF i = 0 THEN s ELSE SubSeq(s, 1, i - 1) \o by \o SubSeq(s, i + Len(sub), Len(s))

\* String.prototype.replace with a string pattern: the first occurrence.
replace(s, sub, by) == replaceAt(s, indexOf(s, sub, 1), sub, by)

\* The indices of the newlines of s.
newlines(s) == occurrences(s, "\n", 1)

\* The k-th of the indices found, the newlines of s; 0 for k = 0, and one
\* past the end of s for a k beyond the last of them.
newlineAt(s, found, k) ==
    IF k = 0 THEN 0
    ELSE IF k > Cardinality(found) THEN Len(s) + 1
    ELSE CHOOSE i \in found : Cardinality({j \in found : j <= i}) = k

\* s.split('\n'): the texts between the newlines, one more than there are
\* newlines.
split(s) ==
    Once(newlines(s), LAMBDA found :
        [k \in 1..(Cardinality(found) + 1) |->
            SubSeq(s, newlineAt(s, found, k - 1) + 1, newlineAt(s, found, k) - 1)])

\* Analyzer.sourceLines
sourceLines(src) == split(src)

\* sourceLines[index] || ''
lineAt(lines, index) == IF index \in 1..Len(lines) THEN lines[index] ELSE ""

getSourceLine(src, lineNum) == lineAt(sourceLines(src), lineNum)

\* Array.prototype.join
RECURSIVE join(_, _)
join(list, separator) ==
    IF list = <<>> THEN ""
    ELSE IF Len(list) = 1 THEN list[1]
    ELSE list[1] \o separator \o join(Tail(list), separator)

(***************************************************************************)
(* The stateVariables Map: a sequence of [key, vars] entries in insertion  *)
(* order.                                                                  *)
(***************************************************************************)
MapHas(m, k) == \E i \in 1..Len(m) : m[i].key = k

MapIndex(m, k) == CHOOSE i \in 1..Len(m) : m[i].key = k

\* stateVariables.get(k) || []
MapGet(m, k) == IF MapHas(m, k) THEN m[MapIndex(m, k)].vars ELSE <<>>

MapSet(m, k, v) ==
    IF MapHas(m, k) THEN [m EXCEPT ![MapIndex(m, k)].vars = v]
    ELSE Append(m, [key |-> k, vars |-> v])

\* The instance a constructor call builds (localVariables is only ever
\* cleared and is left out).
Analyzer_constructor ==
    [findings |-> <<>>, currentContract |-> NullString, currentFunction |-> Null,
     stateVariables |-> <<>>, thrown |-> FALSE]

\* this.currentFunction?.name
currentFunctionName(st) ==
    IF IsNull(st.currentFunction) THEN UndefinedString
    ELSE StrField(st.currentFunction, "name")

addFinding(st, finding) ==
    [st EXCEPT !.findings =
        Append(@, finding @@ [contract |-> st.currentContract,
                              function |-> currentFunctionName(st)])]

\* A type node is an object or null in every AST of the model, never a
\* string.
RECURSIVE getTypeName(_)
getTypeName(typeNode) ==
    IF IsNull(typeNode) THEN "unknown"
    ELSE IF NodeType(typeNode) = "MappingType"
    THEN "mapping(" \o getTypeName(NodeField(typeNode, "keyType")) \o " => "
         \o getTypeName(NodeField(typeNode, "valueType")) \o ")"
    ELSE IF TruthyString(StrField(typeNode, "name")) THEN typeNode.name
    ELSE "unknown"

sizes ==
    [bool |-> 1,
     uint8 |-> 1, int8 |-> 1, bytes1 |-> 1,
     uint16 |-> 2, int16 |-> 2, bytes2 |-> 2,
     uint32 |-> 4, int32 |-> 4, bytes4 |-> 4,
     uint64 |-> 8, int64 |-> 8, bytes8 |-> 8,
     uint128 |-> 16, int128 |-> 16, bytes16 |-> 16,
     uint256 |-> 32, int256 |-> 32, bytes32 |-> 32,
     uint |-> 32, int |-> 32,
     address |-> 20,
     bytes |-> 32, string |-> 32]

\* sizes[typeName] || 32, for a type name that names no property of
\* Object.prototype.
getTypeSize(typeName) == IF typeName \in DOMAIN sizes THEN sizes[typeName] ELSE 32

isConstantValue(node) ==
    ~IsNull(node) /\ NodeType(node) \in {"NumberLiteral", "StringLiteral", "BooleanLiteral"}

\* The numbers of the code are doubles.  The model keeps a non-negative
\* integer below 2^47 exactly, as two limbs: hi * 2^16 + lo with
\* 0 <= lo < 2^16.  Every integer of that range is a double, so that the
\* arithmetic of the code on them is exact.
Limb == 2 ^ 16

Number(hi, lo) == [hi |-> hi, lo |-> lo]

\* NaN is a number no comparison of the code holds for.
NaN == Number(-1, 0)

\* acc * radix + digit
timesPlus(acc, radix, digit) ==
    Number(acc.hi * radix + (acc.lo * radix + digit) \div Limb,
           (acc.lo * radix + digit) % Limb)

\* n - 1 for n > 0
minusOne(n) == IF n.lo > 0 THEN Number(n.hi, n.lo - 1) ELSE Number(n.hi - 1, Limb - 1)

\* n > k for a small integer k >= 0
greaterThan(n, k) == n.hi > 0 \/ (n.hi = 0 /\ n.lo > k)

\* The quotient and the remainder of n by ten.
divTen(n) ==
    [quotient |-> Number(n.hi \div 10 + (((n.hi % 10) * Limb + n.lo) \div 10) \div Limb,
                         (((n.hi % 10) * Limb + n.lo) \div 10) % Limb),
     digit |-> ((n.hi % 10) * Limb + n.lo) % 10]

\* String(n): the decimal digits of an integer.
RECURSIVE numberToString(_)
numberToString(n) ==
    IF n.hi = 0 /\ n.lo < 10 THEN ToString(n.lo)
    ELSE numberToString(divTen(n).quotient) \o ToString(divTen(n).digit)

\* parseInt of a string: leading white space, an optional 0x prefix, then
\* the longest run of digits of the radix; NaN when there is none.
HexDigits == "0123456789abcdef"

UpperHexDigits == "0123456789ABCDEF"

digitValue(char) ==
    IF indexOf(HexDigits, char, 1) # 0 THEN indexOf(HexDigits, char, 1) - 1
    ELSE indexOf(UpperHexDigits, char, 1) - 1

isDigitOf(char, radix) == IF radix = 16 THEN isHexDigit(char) ELSE isDigit(char)

RECURSIVE parseDigits(_, _, _, _)
parseDigits(s, radix, acc, any) ==
    IF s # "" /\ isDigitOf(charAt(s, 0), radix)
    THEN parseDigits(SubSeq(s, 2, Len(s)), radix,
                     timesPlus(acc, radix, digitValue(charAt(s, 0))), TRUE)
    ELSE IF any THEN acc ELSE NaN

parseInt_trimmed(s) ==
    IF Len(s) >= 2 /\ SubSeq(s, 1, 1) = "0" /\ SubSeq(s, 2, 2) \in {"x", "X"}
    THEN parseDigits(SubSeq(s, 3, Len(s)), 16, Number(0, 0), FALSE)
    ELSE parseDigits(s, 10, Number(0, 0), FALSE)

parseInt(str) == parseInt_trimmed(trimStart(str))

\* a & b for two limbs.
RECURSIVE bitAnd(_, _)
bitAnd(a, b) ==
    IF a = 0 \/ b = 0 THEN 0
    ELSE (a % 2) * (b % 2) + 2 * bitAnd(a \div 2, b \div 2)

\* ToInt32: the low 32 bits of the integer, as two limbs.
ToInt32(n) == Number(n.hi % Limb, n.lo)

\* The signed value of 32 bits.
Int32(bits) ==
    (IF bits.hi >= Limb \div 2 THEN bits.hi - Limb ELSE bits.hi) * Limb + bits.lo

\* a & b: both operands are converted to 32-bit integers, and the result is
\* a signed 32-bit integer.
bitAnd32(a, b) ==
    Int32(Number(bitAnd(ToInt32(a).hi, ToInt32(b).hi),
                 bitAnd(ToInt32(a).lo, ToInt32(b).lo)))

isPowerOfTwo(n) == greaterThan(n, 0) /\ bitAnd32(n, minusOne(n)) = 0

\* 2^k as a number.
powerOfTwo(k) == IF k < 16 THEN Number(0, 2 ^ k) ELSE Number(2 ^ (k - 16), 0)

\* The integer part of Math.log2(n), for n >= 1.
RECURSIVE floorLog2(_)
floorLog2(n) ==
    IF ~greaterThan(n, 1) THEN 0
    ELSE 1 + floorLog2(Number(n.hi \div 2, (n.hi % 2) * (Limb \div 2) + n.lo \div 2))

\* String(Math.log2(n)) for n >= 1: an integer for a power of two.  The
\* logarithm of any other number has a fraction, whose digits the model
\* does not compute: it writes the integer part and a mark for them.
log2(n) ==
    IF n = powerOfTwo(floorLog2(n)) THEN ToString(floorLog2(n))
    ELSE ToString(floorLog2(n)) \o ".<fraction>"

isSimpleIncrement(node) ==
    /\ ~IsNull(node)
    /\ NodeType(node) = "UnaryExpression"
    /\ StrField(node, "operator") \in {"++", "--"}

usesPostIncrement(node) ==
    /\ ~IsNull(node)
    /\ NodeType(node) = "UnaryExpression"
    /\ ~BoolField(node, "prefix")
    /\ StrField(node, "operator") \in {"++", "--"}

RECURSIVE containsUnchecked(_)
containsUnchecked(node) ==
    IF IsNull(node) THEN FALSE
    ELSE IF NodeType(node) = "UncheckedBlock" THEN TRUE
    ELSE \E key \in {"statements", "body", "thenBranch", "elseBranch"} :
            \/ /\ HasArray(node, key)
               /\ \E i \in 1..Len(node[key]) : containsUnchecked(node[key][i])
            \/ /\ HasNode(node, key)
               /\ containsUnchecked(node[key])

\* checkNode of isParameterModified: for (key in node) over every field.
RECURSIVE checkNode(_, _)
checkNode(node, paramName) ==
    IF IsNull(node) THEN FALSE
    ELSE \/ /\ NodeType(node) = "AssignmentExpression"
            /\ HasNode(node, "left")
            /\ NodeType(node.left) = "Identifier"
            /\ StrField(node.left, "name") = paramName
         \/ \E key \in DOMAIN node :
               \/ /\ HasArray(node, key)
                  /\ \E i \in 1..Len(node[key]) : checkNode(node[key][i], paramName)
               \/ /\ HasNode(node, key)
                  /\ checkNode(node[key], paramName)

\* body is funcNode.body, null when the function has none.
isParameterModified(paramName, body) == checkNode(body, paramName)

isInLoopUpdate(node) == FALSE

\* The fields of a node that hold nodes or arrays, in an order that agrees
\* with the order in which every object literal of the parser lists them:
\* the order for (key in node) visits them in.
KeyOrder ==
    <<"children", "pragmas", "imports", "baseContracts", "members", "typeName",
      "keyType", "valueType", "parameters", "customModifiers", "args", "init",
      "condition", "thenExpression", "elseExpression", "thenBranch",
      "elseBranch", "update", "left", "right", "operand", "object", "index",
      "callee", "arguments", "fields", "expression", "returns", "errorParams",
      "body", "statements", "catchClauses", "elements", "initialValue", "value",
      "error", "message", "argument">>

\* check of findStorageReads: the names read, in visiting order.
RECURSIVE storageReads(_, _)
RECURSIVE storageReadsIn(_, _, _)

\* The reads under n[key].
storageReadsOf(n, key, stateVarNames) ==
    IF HasArray(n, key) THEN storageReadsIn(n[key], 1, stateVarNames)
    ELSE IF HasNode(n, key) THEN storageReads(n[key], stateVarNames)
    ELSE <<>>

storageReads(n, stateVarNames) ==
    IF IsNull(n) THEN <<>>
    ELSE (IF NodeType(n) = "Identifier" /\ StrField(n, "name") \in stateVarNames
          THEN <<n.name>> ELSE <<>>)
         \o Concat([k \in 1..Len(KeyOrder) |-> storageReadsOf(n, KeyOrder[k], stateVarNames)])

storageReadsIn(array, i, stateVarNames) ==
    IF i > Len(array) THEN <<>>
    ELSE storageReads(array[i], stateVarNames)
         \o storageReadsIn(array, i + 1, stateVarNames)

\* [...new Set(reads)]: each name at its first place.
RECURSIVE unique(_, _)
unique(reads, seen) ==
    IF reads = <<>> THEN seen
    ELSE IF \E i \in 1..Len(seen) : seen[i] = Head(reads) THEN unique(Tail(reads), seen)
    ELSE unique(Tail(reads), Append(seen, Head(reads)))

\* The names of the state variables in the list.
namesOf(stateVars) == {stateVars[i].name : i \in 1..Len(stateVars)}

findStorageReads(node, st) ==
    unique(storageReads(node, namesOf(MapGet(st.stateVariables, st.currentContract))),
           <<>>)

RECURSIVE estimateExpressionCost(_)
estimateExpressionCost(node) ==
    IF IsNull(node) THEN 0
    ELSE IF NodeType(node) = "CallExpression" THEN 100
    ELSE IF NodeType(node) = "MemberExpression" THEN 10
    ELSE IF NodeType(node) = "Identifier" THEN 3
    ELSE IF NodeType(node) \in {"NumberLiteral", "BooleanLiteral"} THEN 1
    ELSE IF NodeType(node) = "BinaryExpression"
    THEN estimateExpressionCost(NodeField(node, "left"))
         + estimateExpressionCost(NodeField(node, "right")) + 3
    ELSE 5

(***************************************************************************)
(* The rule checks.  Each takes the node and the analyzer's state st =     *)
(* [findings, currentContract, currentFunction, stateVariables, thrown]    *)
(* and returns the state after it; thrown is set when the check raised a   *)
(* TypeError.                                                              *)
(***************************************************************************)
USE_CALLDATA(param, src) ==
    [rule |-> "USE_CALLDATA", severity |-> "medium",
     line |-> param.line, column |-> param.column,
     message |-> "Parameter '" \o Str(StrField(param, "name"))
                 \o "' can use 'calldata' instead of 'memory'",
     description |-> "For external functions, using calldata for read-only array/struct parameters saves gas by avoiding memory copy.",
     gasSavings |-> "~60 gas per word + memory expansion costs",
     before |-> getSourceLine(src, param.line),
     after |-> replace(getSourceLine(src, param.line), "memory", "calldata")]

\* A variant of checkCalldataVsMemory_param that does not look at the body.
checkCalldataVsMemory_param_anyBody(funcNode, param, src, st) ==
    IF StrField(param, "dataLocation") = "memory"
    THEN addFinding(st, USE_CALLDATA(param, src))
    ELSE st

checkCalldataVsMemory_param(funcNode, param, src, st) ==
    IF /\ StrField(param, "dataLocation") = "memory"
       /\ ~isParameterModified(StrField(param, "name"), NodeField(funcNode, "body"))
    THEN addFinding(st, USE_CALLDATA(param, src))
    ELSE st

RECURSIVE checkCalldataVsMemory_loop(_, _, _, _)
checkCalldataVsMemory_loop(funcNode, i, src, st) ==
    IF i > Len(funcNode.parameters) THEN st
    ELSE checkCalldataVsMemory_loop(funcNode, i + 1, src,
             checkCalldataVsMemory_param(funcNode, funcNode.parameters[i], src, st))

checkCalldataVsMemory(funcNode, src, st) ==
    IF "parameters" \notin DOMAIN funcNode THEN st
    ELSE IF StrField(funcNode, "visibility") # "external" THEN st
    ELSE checkCalldataVsMemory_loop(funcNode, 1, src, st)

\* p.typeName && (p.typeName.name?.includes('[]') || ...)
isComplexParam(p) ==
    /\ HasNode(p, "typeName")
    /\ "name" \in DOMAIN p.typeName
    /\ \/ includes(p.typeName.name, "[]")
       \/ includes(p.typeName.name, "string")
       \/ includes(p.typeName.name, "bytes")

\* funcNode.parameters.length is read whenever the visibility is public: a
\* TypeError when the node has no parameters.
checkFunctionVisibility(funcNode, st) ==
    IF StrField(funcNode, "visibility") # "public" THEN st
    ELSE IF "parameters" \notin DOMAIN funcNode THEN [st EXCEPT !.thrown = TRUE]
    ELSE IF /\ Len(funcNode.parameters) > 0
            /\ \E i \in 1..Len(funcNode.parameters) : isComplexParam(funcNode.parameters[i])
    THEN addFinding(st,
             [rule |-> "EXTERNAL_VISIBILITY", severity |-> "low",
              line |-> funcNode.line, column |-> funcNode.column,
              message |-> "Function '" \o Str(StrField(funcNode, "name"))
                          \o "' could be external if not called internally",
              description |-> "External functions with complex parameters are more gas efficient than public functions.",
              gasSavings |-> "Varies based on parameter size"])
    ELSE st

\* The elements of a list.
Range(list) == {list[i] : i \in 1..Len(list)}

\* stateVars.some(v => v.name === name)
isStateVar(st, name) ==
    \E v \in Range(MapGet(st.stateVariables, st.currentContract)) : v.name = name

\* A variant of checkLoopOptimizations_length that asks for the operator <.
checkLoopOptimizations_length_lessThan(forNode, st) ==
    IF /\ HasNode(forNode, "condition")
       /\ NodeType(forNode.condition) = "BinaryExpression"
       /\ StrField(forNode.condition, "operator") = "<"
       /\ HasNode(forNode.condition, "right")
       /\ NodeType(forNode.condition.right) = "MemberExpression"
       /\ StrField(forNode.condition.right, "member") = "length"
       /\ HasNode(forNode.condition.right, "object")
       /\ NodeType(forNode.condition.right.object) = "Identifier"
       /\ isStateVar(st, StrField(forNode.condition.right.object, "name"))
    THEN addFinding(st,
             [rule |-> "CACHE_ARRAY_LENGTH", severity |-> "high",
              line |-> forNode.line, column |-> forNode.column,
              message |-> "Cache '" \o Str(forNode.condition.right.object.name)
                          \o ".length' outside the loop",
              description |-> "Reading storage array length on each iteration costs ~2100 gas (cold) or ~100 gas (warm) per SLOAD.",
              gasSavings |-> "~100-2100 gas per iteration",
              before |-> "for (uint i = 0; i < "
                         \o Str(forNode.condition.right.object.name) \o ".length; i++)",
              after |-> "uint256 len = " \o Str(forNode.condition.right.object.name)
                        \o ".length;\nfor (uint i = 0; i < len; i++)"])
    ELSE st

\* The first check of checkLoopOptimizations: the length of a storage array
\* in the condition.
checkLoopOptimizations_length(forNode, st) ==
    IF /\ HasNode(forNode, "condition")
       /\ NodeType(forNode.condition) = "BinaryExpression"
       /\ HasNode(forNode.condition, "right")
       /\ NodeType(forNode.condition.right) = "MemberExpression"
       /\ StrField(forNode.condition.right, "member") = "length"
       /\ HasNode(forNode.condition.right, "object")
       /\ NodeType(forNode.condition.right.object) = "Identifier"
       /\ isStateVar(st, StrField(forNode.condition.right.object, "name"))
    THEN addFinding(st,
             [rule |-> "CACHE_ARRAY_LENGTH", severity |-> "high",
              line |-> forNode.line, column |-> forNode.column,
              message |-> "Cache '" \o Str(forNode.condition.right.object.name)
                          \o ".length' outside the loop",
              description |-> "Reading storage array length on each iteration costs ~2100 gas (cold) or ~100 gas (warm) per SLOAD.",
              gasSavings |-> "~100-2100 gas per iteration",
              before |-> "for (uint i = 0; i < "
                         \o Str(forNode.condition.right.object.name) \o ".length; i++)",
              after |-> "uint256 len = " \o Str(forNode.condition.right.object.name)
                        \o ".length;\nfor (uint i = 0; i < len; i++)"])
    ELSE st

\* The second: the unchecked increment.
checkLoopOptimizations_unchecked(forNode, st) ==
    IF /\ HasNode(forNode, "update")
       /\ ~containsUnchecked(NodeField(forNode, "body"))
       /\ isSimpleIncrement(forNode.update)
    THEN addFinding(st,
             [rule |-> "UNCHECKED_INCREMENT", severity |-> "medium",
              line |-> forNode.line, column |-> forNode.column,
              message |-> "Use unchecked block for loop counter increment",
              description |-> "When loop bounds are known, overflow is impossible. Using unchecked saves ~60-80 gas per iteration.",
              gasSavings |-> "~60-80 gas per iteration",
              before |-> "for (uint i = 0; i < len; i++)",
              after |-> "for (uint i = 0; i < len; ) {\n    // ... loop body ...\n    unchecked { ++i; }\n}"])
    ELSE st

\* a || b for numbers.
Or(a, b) == IF a # 0 THEN a ELSE b

\* The third: i++ or ++i.
checkLoopOptimizations_prefix(forNode, st) ==
    IF HasNode(forNode, "update") /\ usesPostIncrement(forNode.update)
    THEN addFinding(st,
             [rule |-> "PREFIX_INCREMENT", severity |-> "low",
              line |-> Or(NumField(forNode.update, "line"), forNode.line),
              column |-> Or(NumField(forNode.update, "column"), forNode.column),
              message |-> "Use ++i instead of i++",
              description |-> "Prefix increment is slightly more gas efficient as it doesn't create a temporary variable.",
              gasSavings |-> "~5 gas per operation"])
    ELSE st

checkLoopOptimizations(forNode, st) ==
    checkLoopOptimizations_prefix(forNode,
        checkLoopOptimizations_unchecked(forNode,
            checkLoopOptimizations_length(forNode, st)))

\* The finding of checkRequireString.
CUSTOM_ERRORS(node, src) ==
    [rule |-> "CUSTOM_ERRORS", severity |-> "medium",
     line |-> node.line, column |-> node.column,
     message |-> "Use custom errors instead of revert strings",
     description |-> "Custom errors are more gas efficient than require strings. They use only 4 bytes selector.",
     gasSavings |-> "~50 gas deployment + runtime savings per revert",
     before |-> "require(" \o trim(getSourceLine(src, node.line)),
     after |-> "if (!condition) revert CustomError();"]

\* A variant of checkRequireString that reports a message of any kind.
checkRequireString_anyMessage(node, src, st) ==
    IF HasNode(node, "message")
    THEN addFinding(st, CUSTOM_ERRORS(node, src))
    ELSE st

checkRequireString(node, src, st) ==
    IF HasNode(node, "message") /\ NodeType(node.message) = "StringLiteral"
    THEN addFinding(st, CUSTOM_ERRORS(node, src))
    ELSE st

\* A variant of isMutable that takes an immutable variable for a mutable one.
isMutable_unlessConstant(node) == ~BoolField(node, "isConstant")

\* !node.isConstant && !node.isImmutable
isMutable(node) == ~BoolField(node, "isConstant") /\ ~BoolField(node, "isImmutable")

\* The first check of checkStateVariableOptimizations: a variable that could
\* be constant.
checkStateVariableOptimizations_constant(node, st) ==
    IF /\ isMutable(node)
       /\ HasNode(node, "initialValue")
       /\ isConstantValue(node.initialValue)
    THEN addFinding(st,
             [rule |-> "USE_CONSTANT", severity |-> "high",
              line |-> node.line, column |-> node.column,
              message |-> "Consider making '" \o Str(StrField(node, "name"))
                          \o "' constant or immutable",
              description |-> "Constants and immutables are embedded in bytecode, avoiding SLOAD operations (~2100 gas).",
              gasSavings |-> "~2100 gas per read",
              before |-> getTypeName(NodeField(node, "typeName")) \o " "
                         \o Str(StrField(node, "name")) \o " = ...",
              after |-> getTypeName(NodeField(node, "typeName")) \o " constant "
                        \o Str(StrField(node, "name")) \o " = ..."])
    ELSE st

\* The second: an address that could be immutable.
checkStateVariableOptimizations_immutable(node, st) ==
    IF /\ isMutable(node)
       /\ getTypeName(NodeField(node, "typeName")) = "address"
       /\ StrField(node, "visibility") # "constant"
    THEN addFinding(st,
             [rule |-> "USE_IMMUTABLE", severity |-> "medium",
              line |-> node.line, column |-> node.column,
              message |-> "Consider making '" \o Str(StrField(node, "name"))
                          \o "' immutable if set only in constructor",
              description |-> "Immutable variables are stored in bytecode after construction, saving SLOAD gas.",
              gasSavings |-> "~2100 gas per read"])
    ELSE st

checkStateVariableOptimizations(node, st) ==
    checkStateVariableOptimizations_immutable(node,
        checkStateVariableOptimizations_constant(node, st))

\* node.right && node.right.type === 'NumberLiteral'
hasNumberOnRight(node) == HasNode(node, "right") /\ NodeType(node.right) = "NumberLiteral"

\* The first check of checkBinaryExpression: > 0.
checkBinaryExpression_zero(node, st) ==
    IF /\ StrField(node, "operator") = ">"
       /\ hasNumberOnRight(node)
       /\ StrField(node.right, "value") = "0"
    THEN addFinding(st,
             [rule |-> "USE_NEQ_ZERO", severity |-> "low",
              line |-> node.line, column |-> node.column,
              message |-> "Use != 0 instead of > 0 for unsigned integer comparison",
              description |-> "ISZERO opcode is slightly cheaper than GT for checking non-zero values.",
              gasSavings |-> "~6 gas",
              before |-> "require(amount > 0)",
              after |-> "require(amount != 0)"])
    ELSE st

\* The finding of the second check, value being parseInt(node.right.value).
USE_SHIFT(node, value) ==
    [rule |-> "USE_SHIFT", severity |-> "low",
     line |-> node.line, column |-> node.column,
     message |-> "Use bit shift instead of " \o node.operator \o " " \o numberToString(value),
     description |-> "Bit shift operations are cheaper than multiplication/division for powers of 2.",
     gasSavings |-> "~5 gas",
     before |-> "x " \o node.operator \o " " \o numberToString(value),
     after |-> "x " \o (IF node.operator = "*" THEN "<<" ELSE ">>") \o " "
               \o log2(value)]

checkBinaryExpression_shiftBy(node, value, st) ==
    IF isPowerOfTwo(value) /\ greaterThan(value, 1) THEN addFinding(st, USE_SHIFT(node, value)) ELSE st

\* The second: multiplication or division by a power of two.
checkBinaryExpression_shift(node, st) ==
    IF StrField(node, "operator") \in {"*", "/"} /\ hasNumberOnRight(node)
    THEN checkBinaryExpression_shiftBy(node, parseInt(StrField(node.right, "value")), st)
    ELSE st

checkBinaryExpression(node, st) ==
    checkBinaryExpression_shift(node, checkBinaryExpression_zero(node, st))

checkIncrementStyle(node, st) ==
    IF /\ ~BoolField(node, "prefix")
       /\ StrField(node, "operator") \in {"++", "--"}
       /\ (IsNull(st.currentFunction) \/ ~isInLoopUpdate(node))
    THEN addFinding(st,
             [rule |-> "PREFIX_INCREMENT", severity |-> "low",
              line |-> node.line, column |-> node.column,
              message |-> "Use " \o SubSeq(node.operator, 1, 1) \o node.operator
                          \o " (prefix) instead of " \o node.operator \o " (postfix)",
              description |-> "Prefix increment/decrement is slightly more gas efficient.",
              gasSavings |-> "~5 gas"])
    ELSE st

checkStorageAccess(node, st) == st

\* leftCost > rightCost && rightCost > 0
isCostlierFirst(leftCost, rightCost) == leftCost > rightCost /\ rightCost > 0

checkConditionOrder(node, st) ==
    IF /\ HasNode(node, "condition")
       /\ NodeType(node.condition) = "BinaryExpression"
       /\ StrField(node.condition, "operator") \in {"&&", "||"}
       /\ isCostlierFirst(estimateExpressionCost(NodeField(node.condition, "left")),
                          estimateExpressionCost(NodeField(node.condition, "right")))
    THEN addFinding(st,
             [rule |-> "SHORT_CIRCUIT", severity |-> "low",
              line |-> node.line, column |-> node.column,
              message |-> "Consider reordering conditions for short-circuit optimization",
              description |-> "Place cheaper conditions first in && chains (or more likely true conditions in || chains).",
              gasSavings |-> "Varies based on conditions"])
    ELSE st

checkVariableDeclaration(node, st) ==
    IF /\ HasNode(node, "initialValue")
       /\ NodeType(node.initialValue) = "NumberLiteral"
       /\ StrField(node.initialValue, "value") = "0"
    THEN addFinding(st,
             [rule |-> "DEFAULT_VALUE", severity |-> "low",
              line |-> node.line, column |-> node.column,
              message |-> "Remove explicit zero initialization",
              description |-> "Variables are automatically initialized to 0. Explicit initialization wastes gas.",
              gasSavings |-> "~3 gas",
              before |-> "uint256 x = 0;",
              after |-> "uint256 x;"])
    ELSE st

\* The finding of checkAssignment for leftName = leftName operator 1.
USE_INCREMENT_OPERATOR(node, leftName, operator) ==
    [rule |-> "USE_INCREMENT_OPERATOR", severity |-> "low",
     line |-> node.line, column |-> node.column,
     message |-> "Use " \o (IF operator = "+" THEN "++" ELSE "--") \o Str(leftName)
                 \o " instead of " \o Str(leftName) \o " = " \o Str(leftName) \o " "
                 \o operator \o " 1",
     description |-> "Increment/decrement operators are more gas efficient.",
     gasSavings |-> "~5 gas"]

checkAssignment(node, st) ==
    IF /\ StrField(node, "operator") = "="
       /\ HasNode(node, "right")
       /\ NodeType(node.right) = "BinaryExpression"
       /\ HasNode(node, "left")
       /\ NodeType(node.left) = "Identifier"
       /\ StrField(node.right, "operator") \in {"+", "-"}
       /\ HasNode(node.right, "left")
       /\ NodeType(node.right.left) = "Identifier"
       /\ StrField(node.right.left, "name") = StrField(node.left, "name")
       /\ HasNode(node.right, "right")
       /\ NodeType(node.right.right) = "NumberLiteral"
       /\ StrField(node.right.right, "value") = "1"
    THEN addFinding(st, USE_INCREMENT_OPERATOR(node, StrField(node.left, "name"),
                                               node.right.operator))
    ELSE st

\* The finding of checkLoopCondition for the reads, if there are any.
checkLoopCondition_reads(node, storageReadList, st) ==
    IF Len(storageReadList) > 0
    THEN addFinding(st,
             [rule |-> "CACHE_STORAGE_IN_LOOP", severity |-> "high",
              line |-> node.line, column |-> node.column,
              message |-> "Cache storage variable(s) before loop: "
                          \o join(storageReadList, ", "),
              description |-> "Storage reads in loop conditions are executed every iteration, costing ~100-2100 gas each.",
              gasSavings |-> "~100-2100 gas per iteration per variable"])
    ELSE st

checkLoopCondition(node, st) ==
    IF ~HasNode(node, "condition") THEN st
    ELSE checkLoopCondition_reads(node, findStorageReads(node.condition, st), st)

(***************************************************************************)
(* Storage packing                                                         *)
(***************************************************************************)
\* The slot counter of checkStoragePacking after the variables of the given
\* sizes, from the counters slot and used.
RECURSIVE packingLoop(_, _, _, _)
packingLoop(sizeSeq, i, slot, used) ==
    IF i > Len(sizeSeq) THEN slot
    ELSE IF sizeSeq[i] = 32 \/ used + sizeSeq[i] > 32
    THEN packingLoop(sizeSeq, i + 1, slot + 1, sizeSeq[i])
    ELSE packingLoop(sizeSeq, i + 1, slot, used + sizeSeq[i])

\* x put into a list that is sorted largest first, behind the elements that
\* are not smaller.
RECURSIVE insertDescending(_, _)
insertDescending(x, sorted) ==
    IF sorted = <<>> THEN <<x>>
    ELSE IF Head(sorted) >= x THEN <<Head(sorted)>> \o insertDescending(x, Tail(sorted))
    ELSE <<x>> \o sorted

\* [...typeSizes].sort((a, b) => b.size - a.size): stable, largest first.
RECURSIVE sortDescending(_, _)
sortDescending(sizeSeq, sorted) ==
    IF sizeSeq = <<>> THEN sorted
    ELSE sortDescending(Tail(sizeSeq), insertDescending(Head(sizeSeq), sorted))

typeSizes(contractVars) ==
    [i \in 1..Len(contractVars) |-> getTypeSize(getTypeName(contractVars[i].typeName))]

currentSlotOf(contractVars) == packingLoop(typeSizes(contractVars), 1, 0, 0)

optimalSlotsOf(contractVars) ==
    packingLoop(sortDescending(typeSizes(contractVars), <<>>), 1, 0, 0)

\* The finding for currentSlot and optimalSlots.
STORAGE_PACKING(contractName, contractVars, currentSlot, optimalSlots) ==
    [rule |-> "STORAGE_PACKING", severity |-> "high",
     line |-> contractVars[1].line,
     message |-> "Contract '" \o Str(contractName) \o "' can optimize storage layout",
     description |-> "Reordering state variables could reduce storage slots from "
                     \o ToString(currentSlot + 1) \o " to " \o ToString(optimalSlots + 1)
                     \o ".",
     gasSavings |-> "~" \o ToString((currentSlot - optimalSlots) * 20000)
                    \o " gas on deployment + runtime savings",
     suggestion |-> "Group smaller variables together to pack into single 32-byte slots."]

\* The body of the loop of checkStoragePacking for one entry of the map.
checkStoragePacking_contract(contractName, contractVars, st) ==
    IF Len(contractVars) < 2 THEN st
    ELSE IF optimalSlotsOf(contractVars) < currentSlotOf(contractVars)
    THEN addFinding(st, STORAGE_PACKING(contractName, contractVars,
                                        currentSlotOf(contractVars),
                                        optimalSlotsOf(contractVars)))
    ELSE st

RECURSIVE checkStoragePacking_loop(_, _)
checkStoragePacking_loop(i, st) ==
    IF i > Len(st.stateVariables) THEN st
    ELSE checkStoragePacking_loop(i + 1,
             checkStoragePacking_contract(st.stateVariables[i].key,
                                          st.stateVariables[i].vars, st))

checkStoragePacking(st) == checkStoragePacking_loop(1, st)

(***************************************************************************)
(* The two traversals                                                      *)
(***************************************************************************)
\* The first two steps of collectStateVariables on a node.
collectStateVariables_contract(node, st) ==
    IF NodeType(node) = "ContractDefinition"
    THEN [st EXCEPT !.currentContract = StrField(node, "name"),
                    !.stateVariables = MapSet(@, StrField(node, "name"), <<>>)]
    ELSE st

collectStateVariables_variable(node, st) ==
    IF NodeType(node) = "StateVariableDeclaration" /\ TruthyString(st.currentContract)
    THEN [st EXCEPT !.stateVariables =
             MapSet(@, st.currentContract,
                    Append(MapGet(@, st.currentContract),
                           [name |-> StrField(node, "name"),
                            typeName |-> NodeField(node, "typeName"),
                            isConstant |-> BoolField(node, "isConstant"),
                            isImmutable |-> BoolField(node, "isImmutable"),
                            line |-> node.line]))]
    ELSE st

\* node[key] if it is an array, no nodes otherwise.
ArrayField(node, key) == IF HasArray(node, key) THEN node[key] ELSE <<>>

RECURSIVE collectStateVariables(_, _)
RECURSIVE collectStateVariables_each(_, _, _)
\* A variant of collectStateVariables_each that stops at the first function,
\* as a single pass that collects while it checks would have.
collectStateVariables_each_untilFunction(array, i, st) ==
    IF i > Len(array) \/ NodeType(array[i]) = "FunctionDefinition" THEN st
    ELSE collectStateVariables_each(array, i + 1, collectStateVariables(array[i], st))

collectStateVariables_each(array, i, st) ==
    IF i > Len(array) THEN st
    ELSE collectStateVariables_each(array, i + 1, collectStateVariables(array[i], st))

collectStateVariables(node, st) ==
    IF IsNull(node) THEN st
    ELSE collectStateVariables_each(
             ArrayField(node, "children") \o ArrayField(node, "members"), 1,
             collectStateVariables_variable(node,
                 collectStateVariables_contract(node, st)))

childKeys ==
    <<"children", "members", "body", "statements", "parameters",
      "returns", "init", "condition", "update", "thenBranch",
      "elseBranch", "left", "right", "operand", "expression",
      "callee", "arguments", "object", "index", "elements",
      "initialValue", "value", "error", "fields", "catchClauses">>

\* analyzeNode up to its switch: the context.
analyzeNode_contract(node, st) ==
    IF NodeType(node) = "ContractDefinition"
    THEN [st EXCEPT !.currentContract = StrField(node, "name")]
    ELSE st

analyzeNode_function(node, src, st) ==
    IF NodeType(node) = "FunctionDefinition"
    THEN checkFunctionVisibility(node,
             checkCalldataVsMemory(node, src, [st EXCEPT !.currentFunction = node]))
    ELSE st

\* The switch of analyzeNode.
analyzeNode_switch(node, src, st) ==
    IF st.thrown THEN st
    ELSE IF NodeType(node) = "ForStatement" THEN checkLoopOptimizations(node, st)
    ELSE IF NodeType(node) \in {"WhileStatement", "DoWhileStatement"}
    THEN checkLoopCondition(node, st)
    ELSE IF NodeType(node) = "RequireStatement" THEN checkRequireString(node, src, st)
    ELSE IF NodeType(node) = "StateVariableDeclaration"
    THEN checkStateVariableOptimizations(node, st)
    ELSE IF NodeType(node) = "VariableDeclarationStatement"
    THEN checkVariableDeclaration(node, st)
    ELSE IF NodeType(node) = "BinaryExpression" THEN checkBinaryExpression(node, st)
    ELSE IF NodeType(node) = "UnaryExpression" THEN checkIncrementStyle(node, st)
    ELSE IF NodeType(node) = "MemberExpression" THEN checkStorageAccess(node, st)
    ELSE IF NodeType(node) = "AssignmentExpression" THEN checkAssignment(node, st)
    ELSE IF NodeType(node) = "IfStatement" THEN checkConditionOrder(node, st)
    ELSE st

\* What traverseChildren visits for one key: the elements of node[key] when
\* it is an array, node[key] when it is an object.
childrenAt(node, key) ==
    IF HasArray(node, key) THEN node[key]
    ELSE IF HasNode(node, key) THEN <<node[key]>>
    ELSE <<>>

\* The nodes traverseChildren visits, in its order.
childNodes(node) == Concat([k \in 1..Len(childKeys) |-> childrenAt(node, childKeys[k])])

RECURSIVE analyzeNode(_, _, _)
RECURSIVE analyzeNode_each(_, _, _, _)
analyzeNode_each(array, i, src, st) ==
    IF st.thrown \/ i > Len(array) THEN st
    ELSE analyzeNode_each(array, i + 1, src, analyzeNode(array[i], src, st))

traverseChildren(node, src, st) ==
    IF st.thrown THEN st ELSE analyzeNode_each(childNodes(node), 1, src, st)

analyzeNode(node, src, st) ==
    IF st.thrown \/ IsNull(node) THEN st
    ELSE traverseChildren(node, src,
             analyzeNode_switch(node, src,
                 analyzeNode_function(node, src, analyzeNode_contract(node, st))))


(***************************************************************************)
(*                          THE EDITOR EXTENSION                           *)
(*                                                                         *)
(* GasOptimizerDiagnosticProvider runs the analyzer as a child process:    *)
(* runAnalyzer spawns it and registers its callbacks, analyzeDocument      *)
(* debounces the requests of the editor.  Every handler runs to its end    *)
(* before the next one starts, so each one is one action.  A Map is a      *)
(* function on the keys it holds.                                          *)
(***************************************************************************)
EmptyMap == [key \in {} |-> key]

Map_has(map, key) == key \in DOMAIN map

Map_set(map, key, value) ==
    [k \in DOMAIN map \cup {key} |-> IF k = key THEN value ELSE map[k]]

Map_delete(map, key) == [k \in DOMAIN map \ {key} |-> map[k]]

\* The documents of the editor: two Solidity files and a text file.  The
\* uri and the fsPath of a document are both written as its name.
Documents ==
    {[uri |-> "a.sol", languageId |-> "solidity"],
     [uri |-> "b.sol", languageId |-> "solidity"],
     [uri |-> "notes.txt", languageId |-> "plaintext"]}

\* The calls of analyzeDocument in one run, debounced and direct together.
MaxCalls == 2

\* How the synchronous part of runAnalyzer ends: the source is larger than
\* MAX_FILE_SIZE, the analyzer script is not found, the process is spawned,
\* or it is spawned and the write to its stdin throws.
Outcomes == {"tooLarge", "noScript", "spawned", "stdinFailed"}

\* new GasOptimizerDiagnosticProvider()
NoExtension ==
    /\ activeProcesses = EmptyMap
    /\ debounceTimers = EmptyMap
    /\ analyses = <<>>
    /\ timers = <<>>
    /\ disposed = FALSE

\* process.kill() on the process of the i-th call: the signal reaches a
\* process that runs and ends it; killed is set only then.
kill(procs, i) ==
    IF procs[i].running
    THEN [procs EXCEPT ![i].running = FALSE, ![i].killed = TRUE]
    ELSE procs

\* clearTimeout(timeout) for the process timeout of the i-th call.
clearProcessTimeout(procs, i) ==
    IF procs[i].timeout = "armed" THEN [procs EXCEPT ![i].timeout = "cleared"]
    ELSE procs

\* The cancellation of the existing process of the file by runAnalyzer.
cancelExisting(procs, filePath) ==
    IF Map_has(activeProcesses, filePath)
    THEN kill(procs, activeProcesses[filePath])
    ELSE procs

\* The record of a call of runAnalyzer: timer is the debounce timer whose
\* callback made the call, 0 for a direct call.
Analysis(filePath, timer, outcome) ==
    [filePath |-> filePath, timer |-> timer, outcome |-> outcome,
     running |-> outcome = "spawned",
     killed |-> outcome = "stdinFailed",
     closed |-> FALSE,
     errored |-> FALSE,
     timeout |-> IF outcome = "spawned" THEN "armed"
                 ELSE IF outcome = "stdinFailed" THEN "cleared" ELSE "none"]

\* The synchronous part of runAnalyzer(filePath, sourceCode).
runAnalyzer(filePath, timer, outcome) ==
    /\ analyses' =
           Append(IF outcome = "tooLarge" THEN analyses
                  ELSE cancelExisting(analyses, filePath),
                  Analysis(filePath, timer, outcome))
    /\ activeProcesses' =
           CASE outcome = "tooLarge" -> activeProcesses
             [] outcome = "noScript" -> Map_delete(activeProcesses, filePath)
             [] outcome = "spawned" ->
                    Map_set(activeProcesses, filePath, Len(analyses) + 1)
             [] outcome = "stdinFailed" -> Map_delete(activeProcesses, filePath)

\* The number of calls of analyzeDocument made: each debounced one set a
\* timer, each direct one ran the analyzer.
Calls == Len(timers) + Cardinality({i \in DOMAIN analyses : analyses[i].timer = 0})

\* A variant of analyzeDocument that arms the new timer without clearing
\* the one the map holds.
analyzeDocument_withoutClear(document) ==
    /\ ~disposed
    /\ Calls < MaxCalls
    /\ IF document.languageId # "solidity"
       THEN UNCHANGED <<debounceTimers, timers>>
       ELSE /\ timers' = Append(timers, [uri |-> document.uri, state |-> "pending"])
            /\ debounceTimers' = Map_set(debounceTimers, document.uri, Len(timers) + 1)
    /\ UNCHANGED <<pipelineVars, activeProcesses, analyses, disposed>>

\* analyzeDocument(document, false): the timer of the uri is cleared and a
\* new one set.
analyzeDocument(document) ==
    /\ ~disposed
    /\ Calls < MaxCalls
    /\ IF document.languageId # "solidity"
       THEN UNCHANGED <<debounceTimers, timers>>
       ELSE /\ timers' =
                   Append(IF Map_has(debounceTimers, document.uri)
                          THEN [timers EXCEPT ![debounceTimers[document.uri]].state =
                                                  "cleared"]
                          ELSE timers,
                          [uri |-> document.uri, state |-> "pending"])
            /\ debounceTimers' = Map_set(debounceTimers, document.uri, Len(timers) + 1)
    /\ UNCHANGED <<pipelineVars, activeProcesses, analyses, disposed>>

\* The callback of the debounce timer t: the entry of the uri is deleted and
\* analyzeDocument(document, true) runs the analyzer.  Only a Solidity
\* document has a timer.
debounce_fire(t, outcome) ==
    /\ timers[t].state = "pending"
    /\ timers' = [timers EXCEPT ![t].state = "fired"]
    /\ debounceTimers' = Map_delete(debounceTimers, timers[t].uri)
    /\ runAnalyzer(timers[t].uri, t, outcome)
    /\ UNCHANGED <<pipelineVars, disposed>>

\* analyzeDocument(document, true), as analyzeWorkspace calls it.
analyzeDocument_skipDebounce(document, outcome) ==
    /\ ~disposed
    /\ Calls < MaxCalls
    /\ IF document.languageId # "solidity"
       THEN UNCHANGED <<activeProcesses, analyses>>
       ELSE runAnalyzer(document.uri, 0, outcome)
    /\ UNCHANGED <<pipelineVars, debounceTimers, timers, disposed>>

\* The process of the i-th call has been spawned and its close event has
\* not come yet: its callbacks can still run.
Open(i) == analyses[i].outcome \in {"spawned", "stdinFailed"} /\ ~analyses[i].closed

\* The 'close' callback of the process of the i-th call, after the process
\* ended by itself or was killed.
process_close(i) ==
    /\ Open(i)
    /\ analyses' = [clearProcessTimeout(analyses, i) EXCEPT ![i].running = FALSE,
                                                           ![i].closed = TRUE]
    /\ activeProcesses' = Map_delete(activeProcesses, analyses[i].filePath)
    /\ UNCHANGED <<pipelineVars, debounceTimers, timers, disposed>>

\* The 'error' callback: the process could not be started.
process_error(i) ==
    /\ Open(i)
    /\ ~analyses[i].errored
    /\ ~analyses[i].killed
    /\ analyses' = [clearProcessTimeout(analyses, i) EXCEPT ![i].running = FALSE,
                                                           ![i].errored = TRUE]
    /\ activeProcesses' = Map_delete(activeProcesses, analyses[i].filePath)
    /\ UNCHANGED <<pipelineVars, debounceTimers, timers, disposed>>

\* The 'data' callback of stdout or stderr when the output has grown beyond
\* MAX_OUTPUT_SIZE.
process_data(i) ==
    /\ Open(i)
    /\ analyses[i].running
    /\ analyses' = clearProcessTimeout(kill(analyses, i), i)
    /\ activeProcesses' = Map_delete(activeProcesses, analyses[i].filePath)
    /\ UNCHANGED <<pipelineVars, debounceTimers, timers, disposed>>

\* The callback of the process timeout of the i-th call.
process_timeout(i) ==
    /\ analyses[i].timeout = "armed"
    /\ IF ~analyses[i].killed
       THEN /\ analyses' = [kill(analyses, i) EXCEPT ![i].timeout = "fired"]
            /\ activeProcesses' = Map_delete(activeProcesses, analyses[i].filePath)
       ELSE /\ analyses' = [analyses EXCEPT ![i].timeout = "fired"]
            /\ UNCHANGED activeProcesses
    /\ UNCHANGED <<pipelineVars, debounceTimers, timers, disposed>>

\* The processes of the map killed, one after the other.
RECURSIVE killAll(_, _)
killAll(procs, files) ==
    IF files = {} THEN procs
    ELSE killAll(kill(procs, activeProcesses[CHOOSE f \in files : TRUE]),
                 files \ {CHOOSE f \in files : TRUE})

\* dispose()
dispose ==
    /\ ~disposed
    /\ analyses' = killAll(analyses, DOMAIN activeProcesses)
    /\ activeProcesses' = EmptyMap
    /\ timers' = [t \in DOMAIN timers |->
                     IF Map_has(debounceTimers, timers[t].uri)
                        /\ debounceTimers[timers[t].uri] = t
                        /\ timers[t].state = "pending"
                     THEN [timers[t] EXCEPT !.state = "cleared"]
                     ELSE timers[t]]
    /\ debounceTimers' = EmptyMap
    /\ disposed' = TRUE
    /\ UNCHANGED pipelineVars

ExtInit ==
    /\ source = ""
    /\ pc = "extension"
    /\ lpos = 0 /\ lline = 1 /\ lcolumn = 1 /\ ltokens = <<>>
    /\ tokens = <<>> /\ ppos = 0 /\ past = Null /\ errorCount = 0 /\ perror = Null
    /\ ast = Null
    /\ findings = <<>> /\ currentContract = NullString /\ currentFunction = Null
    /\ stateVariables = <<>> /\ pastFindings = <<>> /\ runs = <<>>
    /\ NoExtension

ExtNext ==
    \/ \E document \in Documents : analyzeDocument(document)
    \/ \E t \in DOMAIN timers : \E outcome \in Outcomes : debounce_fire(t, outcome)
    \/ \E document \in Documents : \E outcome \in Outcomes :
           analyzeDocument_skipDebounce(document, outcome)
    \/ \E i \in DOMAIN analyses : process_close(i)
    \/ \E i \in DOMAIN analyses : process_error(i)
    \/ \E i \in DOMAIN analyses : process_data(i)
    \/ \E i \in DOMAIN analyses : process_timeout(i)
    \/ dispose

SpecExt == ExtInit /\ [][ExtNext]_vars

\* A timer that is set and not cleared runs its callback after
\* DEBOUNCE_DELAY.
SpecExtLive ==
    SpecExt /\ WF_vars(\E t \in DOMAIN timers : \E outcome \in Outcomes :
                           debounce_fire(t, outcome))
(***************************************************************************)
(*                           THE STATE MACHINE                             *)
(*                                                                         *)
(* pc: "lexing" (tokenize loops), "lexed" (tokenize returned), "parser"    *)
(* (a Parser is built), "parsing" (parse loops), "parsed" (parse           *)
(* returned), "parseThrown", "analyzer" (an Analyzer is built), "pass2"    *)
(* (collectStateVariables is done), "pass3" (analyzeNode is done),         *)
(* "analyzed" (analyze returned), "analyzeThrown".                         *)
(***************************************************************************)
lexCursor == Cursor(lpos, lline, lcolumn)

\* new Lexer(source)
LexerStart == lpos = 0 /\ lline = 1 /\ lcolumn = 1 /\ ltokens = <<>>

NoParser ==
    tokens = <<>> /\ ppos = 0 /\ past = Null /\ errorCount = 0 /\ perror = Null

NoAnalyzer ==
    /\ findings = <<>> /\ currentContract = NullString /\ currentFunction = Null
    /\ stateVariables = <<>> /\ pastFindings = <<>> /\ runs = <<>>

\* One iteration of the loop of tokenize.
LexStep ==
    /\ pc = "lexing"
    /\ ~Lexer_isAtEnd(source, lexCursor)
    /\ \E r \in {tokenizeIteration(source, lexCursor)} :
           /\ lpos' = r.cur.pos
           /\ lline' = r.cur.line
           /\ lcolumn' = r.cur.column
           /\ ltokens' = pushToken(ltokens, r)
    /\ UNCHANGED <<source, pc, parseVars, ast, analyzerVars, runVars, extVars>>

\* A variant of LexFinish that returns the tokens without the EOF token.
LexFinish_withoutEOF ==
    /\ pc = "lexing"
    /\ Lexer_isAtEnd(source, lexCursor)
    /\ pc' = "lexed"
    /\ UNCHANGED <<source, lexVars, parseVars, ast, analyzerVars, runVars, extVars>>

\* The end of tokenize: the EOF token, and the return.
LexFinish ==
    /\ pc = "lexing"
    /\ Lexer_isAtEnd(source, lexCursor)
    /\ ltokens' = Append(ltokens, makeToken(T("EOF"), "", lline, lcolumn))
    /\ pc' = "lexed"
    /\ UNCHANGED <<source, lpos, lline, lcolumn, parseVars, ast, analyzerVars, runVars, extVars>>

\* new Parser(tokens, source)
Parser_constructor ==
    /\ pc = "lexed"
    /\ tokens' = filterTokens(ltokens)
    /\ ppos' = 0
    /\ pc' = "parser"
    /\ UNCHANGED <<source, lexVars, past, errorCount, perror, ast, analyzerVars, runVars, extVars>>

\* parse() up to its loop.
parse_begin ==
    /\ pc = "parser"
    /\ IF Len(tokens) = 0
       THEN /\ pc' = "parseThrown"
            /\ perror' = [noTokens |-> TRUE]
            /\ UNCHANGED <<past, errorCount>>
       ELSE /\ pc' = "parsing"
            /\ past' = EmptySourceUnit
            /\ errorCount' = 0
            /\ UNCHANGED perror
    /\ UNCHANGED <<source, lexVars, tokens, ppos, ast, analyzerVars, runVars, extVars>>

parseState ==
    [pos |-> ppos, ast |-> past, errorCount |-> errorCount, thrown |-> FALSE,
     error |-> Null]

\* One iteration of the loop of parse: parseTopLevel, and the catch clause
\* when it threw.
parse_iteration ==
    /\ pc = "parsing"
    /\ ~Parser_isAtEnd(tokens, ppos)
    /\ \E s \in {parseIteration(tokens, parseState)} :
           /\ ppos' = s.pos
           /\ past' = s.ast
           /\ errorCount' = s.errorCount
           /\ perror' = s.error
           /\ pc' = IF s.thrown THEN "parseThrown" ELSE "parsing"
    /\ UNCHANGED <<source, lexVars, tokens, ast, analyzerVars, runVars, extVars>>

\* return ast
parse_return ==
    /\ pc = "parsing"
    /\ Parser_isAtEnd(tokens, ppos)
    /\ ast' = past
    /\ pc' = "parsed"
    /\ UNCHANGED <<source, lexVars, parseVars, analyzerVars, runVars, extVars>>

\* The Analyzer instance.
analyzerState ==
    [findings |-> findings, currentContract |-> currentContract,
     currentFunction |-> currentFunction, stateVariables |-> stateVariables,
     thrown |-> FALSE]

MaxRuns == 3

\* The Analyzers are numbered as they are built; pastFindings holds the
\* findings arrays of the earlier ones.
thisAnalyzer == Len(pastFindings) + 1

\* analyze() returns this.findings, the array itself: what the i-th call
\* returned is that array as it is now.
Returned(i) ==
    IF runs[i] = thisAnalyzer THEN findings ELSE pastFindings[runs[i]]

\* new Analyzer(ast, source), for the first run or for another one over the
\* same AST and source.
Analyzer_new ==
    /\ pc \in {"parsed", "analyzed"}
    /\ Len(runs) < MaxRuns
    /\ pastFindings' = IF pc = "analyzed" THEN Append(pastFindings, findings)
                       ELSE pastFindings
    /\ findings' = Analyzer_constructor.findings
    /\ currentContract' = Analyzer_constructor.currentContract
    /\ currentFunction' = Analyzer_constructor.currentFunction
    /\ stateVariables' = Analyzer_constructor.stateVariables
    /\ pc' = "analyzer"
    /\ UNCHANGED <<source, lexVars, parseVars, ast, runs, extVars>>

\* analyze() called once more on the Analyzer that has returned.
analyze_again ==
    /\ pc = "analyzed"
    /\ Len(runs) < MaxRuns
    /\ pc' = "analyzer"
    /\ UNCHANGED <<source, lexVars, parseVars, ast, analyzerVars, runVars, extVars>>

\* analyze(): the first pass.
analyze_collectStateVariables ==
    /\ pc = "analyzer"
    /\ \E s \in {collectStateVariables(ast, analyzerState)} :
           /\ currentContract' = s.currentContract
           /\ stateVariables' = s.stateVariables
    /\ pc' = "pass2"
    /\ UNCHANGED <<source, lexVars, parseVars, ast, findings, currentFunction, runVars, extVars>>

\* analyze(): the second pass, which a TypeError ends.
analyze_analyzeNode ==
    /\ pc = "pass2"
    /\ \E s \in {analyzeNode(ast, source, analyzerState)} :
           /\ findings' = s.findings
           /\ currentContract' = s.currentContract
           /\ currentFunction' = s.currentFunction
           /\ pc' = IF s.thrown THEN "analyzeThrown" ELSE "pass3"
    /\ UNCHANGED <<source, lexVars, parseVars, ast, stateVariables, runVars, extVars>>

\* analyze(): checkStoragePacking, and the return of the findings.
analyze_checkStoragePacking ==
    /\ pc = "pass3"
    /\ findings' = checkStoragePacking(analyzerState).findings
    /\ runs' = Append(runs, thisAnalyzer)
    /\ pc' = "analyzed"
    /\ UNCHANGED <<source, lexVars, parseVars, ast, currentContract, currentFunction,
                   stateVariables, pastFindings, extVars>>
(***************************************************************************)
(* The lexer alone, on every text up to a length                           *)
(***************************************************************************)
MaxSrcLen == 3

LexAlphabet == {" ", "\n", "/", "*", "\"", "\\", "1", "e", "#"}

\* The texts of exactly n characters of the alphabet.
RECURSIVE TextsOfLength(_)
TextsOfLength(n) ==
    IF n = 0 THEN {""}
    ELSE {s \o char : s \in TextsOfLength(n - 1), char \in LexAlphabet}

\* Longer texts: delimiters left open, and characters no token starts with.
OpenTexts ==
    {"hex\"1e", "hex\"1e\" e", "'e\\", "\"e\\\" e", "/** e\n e", "/// e", "0x1e #",
     "1.1e+1 e", "e @ e", "@", "e >>= 1", "e @# e\n"}

\* An operator of several characters between two operands.
LongOperators == {">>=", "<<=", ">>", "<<", ">=", "<=", "**", "=>", "=="}

OperatorText(op) == "e " \o op \o " 1"

OperatorTexts == {OperatorText(op) : op \in LongOperators}

\* A comment, single-line or multi-line, with each kind of third character
\* (or none), closed or left open, and a number after it.
CommentOpeners == {"//", "/*"}

ThirdChars == {"/", "*", "!", " ", "e", ""}

CommentParams == [opener : CommentOpeners, third : ThirdChars, closed : BOOLEAN]

CommentText(p) ==
    p.opener \o p.third
    \o (IF p.third = "" THEN ""
        ELSE " e" \o (IF ~p.closed THEN ""
                      ELSE IF p.opener = "//" THEN "\n1" ELSE "*/ 1"))

CommentTexts == {CommentText(p) : p \in CommentParams}

LexSources ==
    UNION {TextsOfLength(n) : n \in 0..MaxSrcLen} \cup OpenTexts \cup OperatorTexts
        \cup CommentTexts

\* Before the Lexer is built there is no text yet.
LexInit ==
    /\ source = ""
    /\ pc = "start"
    /\ LexerStart /\ NoParser /\ ast = Null /\ NoAnalyzer
    /\ NoExtension

\* new Lexer(source), on any of the texts.
Lexer_constructor ==
    /\ pc = "start"
    /\ source' \in LexSources
    /\ pc' = "lexing"
    /\ UNCHANGED <<lexVars, parseVars, ast, analyzerVars, runVars, extVars>>

LexNext == Lexer_constructor \/ LexStep \/ LexFinish

SpecLex == LexInit /\ [][LexNext]_vars

\* tokenize is one synchronous call: once it has begun it runs on until it
\* returns, so a step of it that can be taken is taken.
SpecLexLive == SpecLex /\ WF_vars(LexStep \/ LexFinish)
(***************************************************************************)
(* The whole pipeline, as the command line tool runs it: tokenize, parse,  *)
(* analyze.  Its inputs are families of source texts.                      *)
(***************************************************************************)
RECURSIVE Repeat(_, _)
Repeat(text, n) == IF n = 0 THEN "" ELSE text \o Repeat(text, n - 1)

Pragma == "pragma solidity ^0.8.0;\n"

ValidContract == "contract C { uint a; }\n"

\* n declarations that fail to parse (a declaration keyword and no name),
\* then a valid contract.
MaxTopErrors == 12

BadDeclarationKinds == {"contract", "struct", "enum"}

ErrSource(kind, n) == Pragma \o Repeat(kind \o " ;\n", n) \o ValidContract

ErrSources == {ErrSource(kind, n) : kind \in BadDeclarationKinds, n \in 0..MaxTopErrors}

\* m statements that are no top-level declaration, each followed by a valid
\* pragma: three that begin with no declaration keyword, and a struct
\* without a name.
MaxBogus == 15

BogusStatements == {"foo bar;\n", "x = 1;\n", "return 1;\n", "struct ;\n"}

BogusSource(stmt, m) == Repeat(stmt \o Pragma, m)

BogusSources == {BogusSource(stmt, m) : stmt \in BogusStatements, m \in 0..MaxBogus}

\* A contract with a state variable, a function whose body is a list of
\* statements, and a second state variable; then a second contract.  A
\* statement is "good" (a = 1;) or "bad" (a 1;); with badMember the
\* contract has a member that fails to parse (uint ;).
MaxStmts == 2

StatementKinds == {"good", "bad"}

StatementText(kind) == IF kind = "good" THEN "a = 1;\n" ELSE "a 1;\n"

RECURSIVE StatementsText(_)
StatementsText(kinds) ==
    IF kinds = <<>> THEN ""
    ELSE StatementText(Head(kinds)) \o StatementsText(Tail(kinds))

BodyParams ==
    [stmts : UNION {[1..n -> StatementKinds] : n \in 0..MaxStmts},
     badMember : BOOLEAN]

BodySource(p) ==
    "contract C {\nuint a;\n"
    \o (IF p.badMember THEN "uint ;\n" ELSE "")
    \o "function f() public {\n"
    \o StatementsText(p.stmts)
    \o "}\nuint b;\n}\n"
    \o "contract D { uint c; }\n"

BodySources == {BodySource(p) : p \in BodyParams}

\* A contract with a function holding one loop, and the state array items
\* declared before the function, after it, or not at all.  The loop is
\*   for (uint i = 0; <condition>; i++) { }   or
\*   while (<condition>) { i++; }
\* and the condition is "i <op> <rhs>" with rhs
\*   length       items.length
\*   local        len
\*   otherLength  other.length
\*   sum          items.length + 1
\* or, for flipped, "items.length <op> i".
LoopKinds == {"for", "while"}

LoopOperators == {"<", "<=", ">", "!=", "+"}

RhsKinds == {"length", "local", "otherLength", "sum", "flipped"}

DeclPlaces == {"before", "after", "none"}

LoopParams == [kind : LoopKinds, op : LoopOperators, rhs : RhsKinds, decl : DeclPlaces]

ConditionText(p) ==
    IF p.rhs = "length" THEN "i " \o p.op \o " items.length"
    ELSE IF p.rhs = "local" THEN "i " \o p.op \o " len"
    ELSE IF p.rhs = "otherLength" THEN "i " \o p.op \o " other.length"
    ELSE IF p.rhs = "sum" THEN "i " \o p.op \o " items.length + 1"
    ELSE "items.length " \o p.op \o " i"

ItemsDeclaration == "uint[] items;\n"

LoopSource(p) ==
    "contract C {\n"
    \o (IF p.decl = "before" THEN ItemsDeclaration ELSE "")
    \o "function f() public {\n"
    \o (IF p.kind = "for"
        THEN "for (uint i = 0; " \o ConditionText(p) \o "; i++) { }\n"
        ELSE "while (" \o ConditionText(p) \o ") { i++; }\n")
    \o "}\n"
    \o (IF p.decl = "after" THEN ItemsDeclaration ELSE "")
    \o "}\n"

LoopSources == {LoopSource(p) : p \in LoopParams}

\* A contract whose members are state variables of the given types.
MaxStateVars == 3

PackTypes == {"uint8", "uint128", "address", "uint256"}

VarNames == <<"a", "b", "c", "d", "e", "f", "g", "h">>

PackTypeLists == UNION {[1..n -> PackTypes] : n \in 0..MaxStateVars}

RECURSIVE PackDeclarations(_, _)
PackDeclarations(types, i) ==
    IF i > Len(types) THEN ""
    ELSE types[i] \o " " \o VarNames[i] \o ";\n" \o PackDeclarations(types, i + 1)

PackSource(types) == "contract C {\n" \o PackDeclarations(types, 1) \o "}\n"

PackSources == {PackSource(types) : types \in PackTypeLists}

\* Longer lists of state variable types, with a 32-byte variable first,
\* inside or nowhere.
LongPackLists ==
    {<<"uint256", "uint8", "uint256", "uint8">>,
     <<"uint8", "uint256", "uint8", "uint256", "uint8">>,
     <<"uint128", "address", "uint128", "address", "uint128">>,
     <<"address", "uint128", "address", "uint128">>}

LongPackSources == {PackSource(types) : types \in LongPackLists}

\* A contract with one state variable declaration
\*   <type> <modifiers> v [= <initializer>];
\* that stands alone or follows a function of the contract.
DeclTypes == {"uint256", "address"}

DeclModifiers == {"", "public ", "constant ", "immutable ", "public constant "}

LiteralInitializers == {"10000", "\"x\"", "true"}

OtherInitializers == {"-1", "w + 1", "w"}

NoInitializer == "none"

DeclParams ==
    [type : DeclTypes, modifiers : DeclModifiers,
     init : LiteralInitializers \cup OtherInitializers \cup {NoInitializer},
     afterFunction : BOOLEAN]

DeclText(p) ==
    p.type \o " " \o p.modifiers \o "v"
    \o (IF p.init = NoInitializer THEN "" ELSE " = " \o p.init) \o ";\n"

DeclSource(p) ==
    "contract C {\n"
    \o (IF p.afterFunction THEN "function f() public {\n}\n" ELSE "")
    \o DeclText(p)
    \o "}\n"

DeclSources == {DeclSource(p) : p \in DeclParams}

\* A contract with the state array other and a function
\*   function f(uint[] <location> data [, uint[] memory more]) <visibility>
\* without a body, or with a body of one statement:
\*   empty   nothing
\*   assign  data = other;
\*   nested  if (true) { data = other; }
\*   index   data[0] = 1;
\*   read    other = data;
FnVisibilities == {"external", "public", "internal", ""}

FnLocations == {"memory", "calldata", ""}

FnBodies == {"none", "empty", "assign", "nested", "index", "read"}

FnParams ==
    [visibility : FnVisibilities, location : FnLocations, body : FnBodies,
     second : BOOLEAN]

FnBodyText(body) ==
    IF body = "assign" THEN "data = other;\n"
    ELSE IF body = "nested" THEN "if (true) { data = other; }\n"
    ELSE IF body = "index" THEN "data[0] = 1;\n"
    ELSE IF body = "read" THEN "other = data;\n"
    ELSE ""

FnSource(p) ==
    "contract C {\nuint[] other;\n"
    \o "function f(uint[] "
    \o (IF p.location = "" THEN "" ELSE p.location \o " ") \o "data"
    \o (IF p.second THEN ", uint[] memory more" ELSE "") \o ")"
    \o (IF p.visibility = "" THEN "" ELSE " " \o p.visibility)
    \o (IF p.body = "none" THEN ";\n" ELSE " {\n" \o FnBodyText(p.body) \o "}\n")
    \o "}\n"

FnSources == {FnSource(p) : p \in FnParams}

\* A contract with one function, constructor or modifier whose body holds,
\* on the lines 4 and (when twice) 5, the statement
\*   <kind>(a > 1 [, <message>]);
\* at the top of the body or inside a statement that begins on line 3.
ReqKinds == {"require", "assert"}

ReqMessages == {"none", "literal", "identifier", "call"}

ReqPlaces ==
    {"top", "if", "else", "for", "while", "doWhile", "unchecked", "constructor",
     "modifier"}

ReqParams == [kind : ReqKinds, message : ReqMessages, place : ReqPlaces, twice : BOOLEAN]

ReqMessageText(message) ==
    IF message = "literal" THEN ", \"too small\""
    ELSE IF message = "identifier" THEN ", reason"
    ELSE IF message = "call" THEN ", describe(\"too small\")"
    ELSE ""

ReqStatement(p) == p.kind \o "(a > 1" \o ReqMessageText(p.message) \o ");\n"

ReqHeader(place) ==
    IF place = "constructor" THEN "constructor() {\n"
    ELSE IF place = "modifier" THEN "modifier m() {\n"
    ELSE "function f() public {\n"

ReqBefore(place) ==
    IF place = "if" THEN "if (true) {\n"
    ELSE IF place = "else" THEN "if (true) { } else {\n"
    ELSE IF place = "for" THEN "for (uint i = 0; i < 1; i++) {\n"
    ELSE IF place = "while" THEN "while (true) {\n"
    ELSE IF place = "doWhile" THEN "do {\n"
    ELSE IF place = "unchecked" THEN "unchecked {\n"
    ELSE "a = 1;\n"

ReqAfter(place) ==
    IF place \in {"if", "else", "for", "while", "unchecked"} THEN "}\n"
    ELSE IF place = "doWhile" THEN "} while (true);\n"
    ELSE ""

ReqSource(p) ==
    "contract C {\n"
    \o ReqHeader(p.place)
    \o ReqBefore(p.place)
    \o ReqStatement(p) \o (IF p.twice THEN ReqStatement(p) ELSE "")
    \o ReqAfter(p.place)
    \o "}\n}\n"

ReqSources == {ReqSource(p) : p \in ReqParams}

\* Texts in which the token that parseTopLevel fails at is itself a place
\* to resume: a declaration keyword (after a missing name or a missing
\* semicolon), or the token after a semicolon or a closing brace.
SyncSources ==
    {"contract contract D { uint c; }\n",
     "contract C {\nuint a\nfunction f() public { }\n}\ncontract D { uint c; }\n",
     "contract C {\nfunction f() public {\na = 1; )\n}\n}\ncontract D { uint c; }\n",
     "struct enum E { A }\ncontract D { uint c; }\n",
     "contract C is ;\ncontract D { uint c; }\n"}

\* A contract over many lines that many rules apply to, after a comment of
\* two lines; its last line has no newline.
RuleSource ==
    "pragma solidity ^0.8.0;\n"
    \o "/* a comment\n of two lines */\n"
    \o "contract R {\n"
    \o "uint256 public total;\n"
    \o "uint[] items;\n"
    \o "function sum(uint[] memory data) external returns (uint) {\n"
    \o "require(data.length > 0,\n \"the data must hold at least one element to sum\");\n"
    \o "uint s = 0;\n"
    \o "for (uint i = 0; i < items.length; i++) {\n"
    \o "s = s + items[i] * 2;\n"
    \o "}\n"
    \o "if (total > 0 && s != 0) { total += 1; }\n"
    \o "return s;\n"
    \o "}\n"
    \o "function get(string memory key) public { total = total + 1; }\n"
    \o "}"

\* Two contracts A and B, each with state variables that checkStoragePacking
\* reports (packable) or not, and a function f in one of them or in none.
FunctionPlaces == {"none", "first", "second"}

TwoContractParams == [first : BOOLEAN, second : BOOLEAN, function : FunctionPlaces]

StateVariablesText(packable) ==
    IF packable THEN "uint128 a;\naddress b;\nuint128 c;\n"
    ELSE "uint128 a;\nuint128 b;\n"

FunctionText(present) == IF present THEN "function f() public { }\n" ELSE ""

TwoContractSource(p) ==
    "contract A {\n" \o StateVariablesText(p.first)
        \o FunctionText(p.function = "first") \o "}\n"
    \o "contract B {\n" \o StateVariablesText(p.second)
        \o FunctionText(p.function = "second") \o "}\n"

TwoContractSources == {TwoContractSource(p) : p \in TwoContractParams}

\* A valid source with a comment at the end of a line: after the pragma
\* (top level), after the state variable (between two members) or after the
\* first statement of the function (between two statements).
EndComments == {"", " /// doc", " /** doc */", " // note", " /* note */"}

CommentPlaces == {"top", "member", "statement"}

DocParams == [comment : EndComments, place : CommentPlaces]

CommentAt(p, place) == IF p.place = place THEN p.comment ELSE ""

DocSource(p) ==
    "pragma solidity ^0.8.0;" \o CommentAt(p, "top") \o "\n"
    \o "contract C {\n"
    \o "uint total;" \o CommentAt(p, "member") \o "\n"
    \o "function f() public {\n"
    \o "total = 1;" \o CommentAt(p, "statement") \o "\n"
    \o "total = 2;\n"
    \o "}\n"
    \o "}\n"

DocSources == {DocSource(p) : p \in DocParams}

Sources ==
    DocSources \cup LongPackSources \cup ErrSources \cup BogusSources \cup BodySources \cup LoopSources \cup PackSources
        \cup DeclSources \cup FnSources \cup ReqSources \cup SyncSources
        \cup TwoContractSources \cup {RuleSource}

Init ==
    /\ source \in Sources
    /\ pc = "lexing"
    /\ LexerStart /\ NoParser /\ ast = Null /\ NoAnalyzer
    /\ NoExtension

Next ==
    \/ LexStep
    \/ LexFinish
    \/ Parser_constructor
    \/ parse_begin
    \/ parse_iteration
    \/ parse_return
    \/ Analyzer_new
    \/ analyze_again
    \/ analyze_collectStateVariables
    \/ analyze_analyzeNode
    \/ analyze_checkStoragePacking

Spec == Init /\ [][Next]_vars

(***************************************************************************)
(* The Analyzer alone, given an AST no parse produced: a function node     *)
(* with fields left out.                                                   *)
(***************************************************************************)
Visibilities == {"public", "external", "internal", "private", "missing"}

ParameterShapes == {"missing", "empty", "memory", "calldata"}

BodyShapes == {"missing", "null", "block"}

FunctionShapes ==
    [visibility : Visibilities, parameters : ParameterShapes, body : BodyShapes,
     inContract : BOOLEAN]

AstSource == "function f(uint[] memory data)"

AstParameter(location) ==
    [type |-> "Parameter",
     typeName |-> [type |-> "TypeName", name |-> "uint[]", line |-> 1, column |-> 12],
     dataLocation |-> location, name |-> "data", line |-> 1, column |-> 12]

AstFunction(shape) ==
    [type |-> "FunctionDefinition", name |-> "f", line |-> 1, column |-> 1]
    @@ (IF shape.visibility = "missing" THEN <<>>
        ELSE [visibility |-> shape.visibility])
    @@ (IF shape.parameters = "missing" THEN <<>>
        ELSE IF shape.parameters = "empty" THEN [parameters |-> <<>>]
        ELSE [parameters |-> <<AstParameter(shape.parameters)>>])
    @@ (IF shape.body = "missing" THEN <<>>
        ELSE IF shape.body = "null" THEN [body |-> Null]
        ELSE [body |-> [type |-> "Block", statements |-> <<>>,
                        line |-> 1, column |-> 30]])

AstOf(shape) ==
    [type |-> "SourceUnit", pragmas |-> <<>>, imports |-> <<>>,
     children |->
        IF shape.inContract
        THEN <<[type |-> "ContractDefinition", name |-> "C",
                members |-> <<AstFunction(shape)>>, line |-> 1, column |-> 1]>>
        ELSE <<AstFunction(shape)>>]

\* A function whose body is one for loop, for (; ok; <update>) { <body> },
\* with an unchecked block nowhere in the body, at its top, or inside a
\* statement of the body: the branches of an if, a nested for, a while, the
\* body of a try and a catch clause of it.  The nodes have the fields the
\* Parser gives them.
UpdateKinds == {"++", "--", "assignment", "none"}

UncheckedPlaces == {"none", "top", "if", "else", "for", "while", "try", "catch"}

LoopShapes == [update : UpdateKinds, place : UncheckedPlaces]

AstIdentifier(name) == [type |-> "Identifier", name |-> name, line |-> 1, column |-> 1]

AstBlock(statements) ==
    [type |-> "Block", statements |-> statements, line |-> 1, column |-> 1]

AstUnchecked ==
    [type |-> "UncheckedBlock", body |-> AstBlock(<<>>), line |-> 1, column |-> 1]

AstUpdate(kind) ==
    IF kind = "none" THEN Null
    ELSE IF kind = "assignment"
    THEN [type |-> "AssignmentExpression", operator |-> "+=",
          left |-> AstIdentifier("i"),
          right |-> [type |-> "NumberLiteral", value |-> "1", line |-> 1, column |-> 1],
          line |-> 1, column |-> 1]
    ELSE [type |-> "UnaryExpression", operator |-> kind,
          operand |-> AstIdentifier("i"), prefix |-> FALSE, line |-> 1, column |-> 1]

AstFor(update, body) ==
    [type |-> "ForStatement", init |-> Null, condition |-> AstIdentifier("ok"),
     update |-> update, body |-> body, line |-> 1, column |-> 1]

AstTry(body, catchBody) ==
    [type |-> "TryStatement", expression |-> AstIdentifier("call"),
     returns |-> <<>>, body |-> body,
     catchClauses |-> <<[errorName |-> NullString, errorParams |-> <<>>,
                         body |-> catchBody]>>,
     line |-> 1, column |-> 1]

\* The statements of the body of the loop.
AstLoopBody(place) ==
    IF place = "none" THEN <<>>
    ELSE IF place = "top" THEN <<AstUnchecked>>
    ELSE IF place = "if"
    THEN <<[type |-> "IfStatement", condition |-> AstIdentifier("ok"),
            thenBranch |-> AstBlock(<<AstUnchecked>>), elseBranch |-> Null,
            line |-> 1, column |-> 1]>>
    ELSE IF place = "else"
    THEN <<[type |-> "IfStatement", condition |-> AstIdentifier("ok"),
            thenBranch |-> AstBlock(<<>>), elseBranch |-> AstBlock(<<AstUnchecked>>),
            line |-> 1, column |-> 1]>>
    ELSE IF place = "for" THEN <<AstFor(Null, AstBlock(<<AstUnchecked>>))>>
    ELSE IF place = "while"
    THEN <<[type |-> "WhileStatement", condition |-> AstIdentifier("ok"),
            body |-> AstBlock(<<AstUnchecked>>), line |-> 1, column |-> 1]>>
    ELSE IF place = "try" THEN <<AstTry(AstBlock(<<AstUnchecked>>), AstBlock(<<>>))>>
    ELSE <<AstTry(AstBlock(<<>>), AstBlock(<<AstUnchecked>>))>>

LoopAst(shape) ==
    [type |-> "SourceUnit", pragmas |-> <<>>, imports |-> <<>>,
     children |->
        <<[type |-> "ContractDefinition", name |-> "C",
           members |->
              <<[type |-> "FunctionDefinition", name |-> "f",
                 visibility |-> "internal", parameters |-> <<>>,
                 body |-> AstBlock(<<AstFor(AstUpdate(shape.update),
                                            AstBlock(AstLoopBody(shape.place)))>>),
                 line |-> 1, column |-> 1]>>,
           line |-> 1, column |-> 1]>>]

LoopAsts == {LoopAst(shape) : shape \in LoopShapes}

Asts == {AstOf(shape) : shape \in FunctionShapes} \cup LoopAsts

AstInit ==
    /\ ast \in Asts
    /\ source = AstSource
    /\ pc = "parsed"
    /\ LexerStart /\ NoParser /\ NoAnalyzer
    /\ NoExtension

AstNext ==
    \/ Analyzer_new
    \/ analyze_collectStateVariables
    \/ analyze_analyzeNode
    \/ analyze_checkStoragePacking

SpecAst == AstInit /\ [][AstNext]_vars


(***************************************************************************)
(* The whole pipeline on a state variable whose initializer is an          *)
(* expression over identifiers: two binary operators in a row, and         *)
(* ternaries and assignments.                                              *)
(***************************************************************************)
BinaryOperators ==
    {"||", "&&", "==", "!=", "<", ">", "<=", ">=", "|", "^", "&", "<<", ">>",
     "+", "-", "*", "/", "%", "**"}

OperatorPairs == BinaryOperators \X BinaryOperators

PairText(pair) == "a " \o pair[1] \o " b " \o pair[2] \o " c"

OtherExpressions ==
    {"a ? b : c ? d : e", "a ? b ? c : d : e", "a || b ? c : d", "a ? b : c || d",
     "a = b = c", "a = b ? c : d", "a += b + c", "a ? b : c = d",
     "a + b * c - d", "a ** b ** c ** d", "a || b && c || d", "a * b + c * d"}

ExprTexts == {PairText(pair) : pair \in OperatorPairs} \cup OtherExpressions

ExprSource(text) == "contract C {\nuint v = " \o text \o ";\n}\n"

\* The number literals of the multiplications and divisions: the text of
\* the literal in the source and the number it denotes, value being the
\* number itself when whole is true and its integer part otherwise.
ShiftLiteral(text, whole, value) == [text |-> text, whole |-> whole, value |-> value]

Whole(text, n) == ShiftLiteral(text, TRUE, Number(n \div Limb, n % Limb))

DecimalLiterals ==
    {Whole("0", 0), Whole("1", 1), Whole("2", 2), Whole("3", 3), Whole("8", 8),
     Whole("12", 12), Whole("1000", 1000), Whole("1024", 1024),
     Whole("65536", 65536), Whole("2147483647", 2147483647)}

HexLiterals ==
    {Whole("0x10", 16), Whole("0X20", 32), Whole("0x0c", 12), Whole("0xfF", 255),
     ShiftLiteral("0x80000000", TRUE, powerOfTwo(31)),
     ShiftLiteral("0x100000000", TRUE, powerOfTwo(32)),
     ShiftLiteral("0x100000001", TRUE, Number(2 ^ 16, 1))}

FractionLiterals ==
    {Whole("2.0", 2), ShiftLiteral("4.5", FALSE, Number(0, 4)),
     ShiftLiteral("0.5", FALSE, Number(0, 0))}

ExponentLiterals ==
    {Whole("2e3", 2000), Whole("1e1", 10), Whole("16e0", 16), Whole("4E+0", 4),
     Whole("1.6e1", 16), Whole("20e-1", 2), ShiftLiteral("5e-1", FALSE, Number(0, 0))}

LargeLiterals ==
    {ShiftLiteral("2147483648", TRUE, powerOfTwo(31)),
     ShiftLiteral("3221225472", TRUE, Number(3 * 2 ^ 14, 0)),
     ShiftLiteral("4294967295", TRUE, Number(Limb - 1, Limb - 1)),
     ShiftLiteral("4294967296", TRUE, powerOfTwo(32)),
     ShiftLiteral("4294967297", TRUE, Number(2 ^ 16, 1)),
     ShiftLiteral("4294967298", TRUE, Number(2 ^ 16, 2)),
     ShiftLiteral("6442450944", TRUE, Number(3 * 2 ^ 15, 0)),
     ShiftLiteral("8589934592", TRUE, powerOfTwo(33))}

ShiftLiterals ==
    DecimalLiterals \cup HexLiterals \cup FractionLiterals \cup ExponentLiterals
        \cup LargeLiterals

ShiftOperators == {"*", "/", "+"}

ShiftParams == [operator : ShiftOperators, literal : ShiftLiterals]

ShiftText(p) == "a " \o p.operator \o " " \o p.literal.text

ShiftSources == {ExprSource(ShiftText(p)) : p \in ShiftParams}

\* The places of a multiplication by 8 in the tree: the whole initial
\* value of a state variable, the condition and the branches of a ternary
\* expression, the condition and the message of a require statement.
VisitPlaces == {"value", "ternaryCondition", "then", "else", "condition", "message"}

RequireSource(arguments) ==
    "contract C {\nfunction f() public {\nrequire(" \o arguments \o ");\n}\n}\n"

VisitSource(place) ==
    CASE place = "value" -> ExprSource("a * 8")
      [] place = "ternaryCondition" -> ExprSource("a * 8 ? b : c")
      [] place = "then" -> ExprSource("c ? a * 8 : b")
      [] place = "else" -> ExprSource("c ? b : a * 8")
      [] place = "condition" -> RequireSource("a * 8, b")
      [] place = "message" -> RequireSource("b, a * 8")

VisitSources == {VisitSource(place) : place \in VisitPlaces}

ExprSources ==
    {ExprSource(text) : text \in ExprTexts} \cup ShiftSources \cup VisitSources

ExprInit ==
    /\ source \in ExprSources
    /\ pc = "lexing"
    /\ LexerStart /\ NoParser /\ ast = Null /\ NoAnalyzer
    /\ NoExtension

SpecExpr == ExprInit /\ [][Next]_vars

(***************************************************************************)
(*                              PROPERTIES                                 *)
(***************************************************************************)
\* The tokens hold one EOF token, and it is the last one.
EOFOnlyLast(toks) ==
    /\ toks # <<>>
    /\ \A i \in DOMAIN toks : (toks[i].type = "EOF") <=> (i = Len(toks))

\* C1: on every text, those that are empty, all whitespace, or that leave a
\* string or a comment open or hold a character no token starts with
\* included, tokenize comes to its return (every iteration of its loop
\* moves the position forward, and nothing in it throws), and the tokens it
\* returns hold exactly one EOF token, the last one.
C1_TokenizeReturnsOneEOF ==
    /\ (pc = "lexing") ~> (pc = "lexed")
    /\ [][pc = "lexing" /\ pc' = "lexing" => lpos' > lpos]_vars
    /\ [](pc = "lexed" => EOFOnlyLast(ltokens))

\* tokenize returned on a text with an unknown character and an open comment.
C1_Witness ==
    /\ pc = "lexed"
    /\ includes(source, "#")
    /\ includes(source, "/*")
    /\ ~includes(source, "*/")

\* C2: parse throws only at the exception that takes the count of caught
\* exceptions over MAX_ERRORS: while the count is at most MAX_ERRORS the
\* loop goes on, each iteration further in the tokens, and at the end of
\* the tokens parse returns the SourceUnit; at exception MAX_ERRORS + 1 it
\* throws an error that carries the count and the error that was caught,
\* and returns no AST.
C2_ParseThrowsAfterMaxErrors ==
    /\ [](pc = "parsing" => errorCount <= MAX_ERRORS)
    /\ [][pc = "parsing" /\ pc' = "parsing" => ppos' > ppos]_vars
    /\ [](pc = "parsed" => errorCount <= MAX_ERRORS /\ NodeType(ast) = "SourceUnit")
    /\ [](pc = "parseThrown" =>
            /\ errorCount = MAX_ERRORS + 1
            /\ perror.tooMany = errorCount
            /\ IsNull(ast))
    /\ [][pc = "parsing" /\ ~Parser_isAtEnd(tokens, ppos)
               /\ ~Call("parseTopLevel", tokens, ppos).ok
            => IF errorCount < MAX_ERRORS
               THEN pc' = "parsing" /\ errorCount' = errorCount + 1
               ELSE /\ pc' = "parseThrown"
                    /\ perror'.last = Call("parseTopLevel", tokens, ppos).err]_vars

\* parse threw at exception MAX_ERRORS + 1.
C2_Witness == pc = "parseThrown" /\ errorCount = MAX_ERRORS + 1

\* The top-level children of tree that are contracts named name.
ContractsNamed(tree, name) ==
    {i \in DOMAIN tree.children :
        /\ tree.children[i].type = "ContractDefinition"
        /\ tree.children[i].name = name}

HasStateVariable(contract, name) ==
    \E i \in DOMAIN contract.members :
        /\ contract.members[i].type = "StateVariableDeclaration"
        /\ contract.members[i].name = name

\* C3: an error stays within the statement or the member that fails to
\* parse: for a contract C with the valid state variables a and b around a
\* function whose body may hold failing statements (and maybe one failing
\* member), followed by a valid contract D, the AST that parse returns holds
\* the ContractDefinition C with a and b, and the ContractDefinition D.
C3_ErrorStaysInStatement ==
    pc = "parsed" /\ source \in BodySources =>
        /\ \E i \in ContractsNamed(ast, "C") :
               /\ HasStateVariable(ast.children[i], "a")
               /\ HasStateVariable(ast.children[i], "b")
        /\ ContractsNamed(ast, "D") # {}

\* C4: on a source of more than MAX_ERRORS bogus top-level statements, each
\* followed by a valid pragma directive, parse does not return: it fails
\* on the count of errors.
C4_BogusStatementsFailParse ==
    (\E stmt \in BogusStatements, m \in (MAX_ERRORS + 1)..MaxBogus :
        source = BogusSource(stmt, m))
    => pc # "parsed"

\* C5: any two calls of analyze over the same AST and source return equal
\* finding sequences: once analyze has returned, what any call of it
\* returned equals what any other call returned.
C5_RunsReturnEqualFindings ==
    pc = "analyzed" => \A i, j \in DOMAIN runs : Returned(i) = Returned(j)

\* C6: analyze never throws, whatever fields the nodes of the AST lack: a
\* FunctionDefinition without parameters, of any visibility, is passed over.
C6_AnalyzeNeverThrows == pc # "analyzeThrown"

\* C7: after tokenize, parse and analyze on a source, the line of every
\* finding is a line of that source: at least 1 and at most the number of
\* lines of the source.
C7_FindingLinesAreSourceLines ==
    \A i \in DOMAIN findings :
        /\ "line" \in DOMAIN findings[i]
        /\ findings[i].line \in 1..Len(sourceLines(source))

\* analyze returned findings on several lines of a source that has a comment
\* of two lines, among them one on the line before the last.
C7_Witness ==
    /\ pc = "analyzed"
    /\ source = RuleSource
    /\ \E i \in DOMAIN findings : findings[i].line = Len(sourceLines(source)) - 1
    /\ \E i \in DOMAIN findings : findings[i].line = 7

\* The names of the state variables that a contract node declares.
DeclaredStateVariables(contract) ==
    {contract.members[i].name :
        i \in {j \in DOMAIN contract.members :
                  contract.members[j].type = "StateVariableDeclaration"}}

\* The names that stateVariables holds for the contract named name.
CollectedStateVariables(name) ==
    {v.name : v \in Range(MapGet(stateVariables, name))}

HasFinding(rule) == \E i \in DOMAIN findings : findings[i].rule = rule

\* The loop sources that read items.length in the condition, items being
\* declared after the function that holds the loop.
LaterDeclared(kind) ==
    {LoopSource(p) : p \in {q \in LoopParams :
        q.kind = kind /\ q.rhs = "length" /\ q.decl = "after"}}

\* C8: the first pass is over before any rule check runs: it adds no
\* finding, findings are only added by the later passes, and when the second
\* pass begins stateVariables holds every state variable of every contract;
\* so a loop that reads a state variable declared after the function that
\* holds the loop is reported, a for loop under CACHE_ARRAY_LENGTH and a
\* while loop under CACHE_STORAGE_IN_LOOP.
C8_PassOneBeforePassTwo ==
    /\ [][pc = "analyzer" => findings' = findings]_vars
    /\ [][findings' # findings /\ findings' # <<>> => pc \in {"pass2", "pass3"}]_vars
    /\ [](pc \in {"pass2", "pass3", "analyzed"} =>
            \A i \in DOMAIN ast.children :
                ast.children[i].type = "ContractDefinition" =>
                    CollectedStateVariables(ast.children[i].name)
                        = DeclaredStateVariables(ast.children[i]))
    /\ [](pc = "analyzed" /\ source \in LaterDeclared("for")
            => HasFinding("CACHE_ARRAY_LENGTH"))
    /\ [](pc = "analyzed" /\ source \in LaterDeclared("while")
            => HasFinding("CACHE_STORAGE_IN_LOOP"))

\* analyze returned on a for loop over items, declared after the function,
\* with the finding.
C8_Witness ==
    /\ pc = "analyzed"
    /\ source \in LaterDeclared("for")
    /\ HasFinding("CACHE_ARRAY_LENGTH")

\* The sources with a for loop.
ForLoopParams == {p \in LoopParams : p.kind = "for"}

\* The loop condition has the form x <op> items.length and items is a state
\* variable of the contract.
ReadsStateArrayLength(p) == p.rhs = "length" /\ p.decl # "none"

\* C9 as the text has it: CACHE_ARRAY_LENGTH is reported for a for loop
\* exactly when its condition is x < expr.length with expr an identifier
\* that names a state variable of the current contract; no other shape and
\* no other operator draws it.
C9_CacheArrayLengthOnlyLessThan ==
    pc = "analyzed" =>
        \A p \in ForLoopParams : source = LoopSource(p) =>
            (HasFinding("CACHE_ARRAY_LENGTH")
                <=> p.op = "<" /\ ReadsStateArrayLength(p))

\* C9, amended: CACHE_ARRAY_LENGTH (high) is reported for a for loop exactly
\* when its condition is a binary expression, whatever its operator, whose
\* right operand is expr.length with expr an identifier that names a state
\* variable of the current contract.
C9_CacheArrayLengthAnyOperator ==
    /\ pc = "analyzed" =>
           \A p \in ForLoopParams : source = LoopSource(p) =>
               (HasFinding("CACHE_ARRAY_LENGTH") <=> ReadsStateArrayLength(p))
    /\ \A i \in DOMAIN findings :
           findings[i].rule = "CACHE_ARRAY_LENGTH" => findings[i].severity = "high"

\* analyze returned the finding for a for loop with the condition
\* i != items.length.
C9_Witness ==
    /\ pc = "analyzed"
    /\ \E p \in ForLoopParams :
           source = LoopSource(p) /\ p.op = "!=" /\ ReadsStateArrayLength(p)
    /\ HasFinding("CACHE_ARRAY_LENGTH")


\* The number of 32-byte slots that variables of the given sizes take when
\* they are laid out in the given order, each one in the slot of the one
\* before it when it still fits there; free is the room left in that slot.
RECURSIVE SlotsNeeded(_, _, _)
SlotsNeeded(sizeSeq, i, free) ==
    IF i > Len(sizeSeq) THEN 0
    ELSE IF sizeSeq[i] <= free THEN SlotsNeeded(sizeSeq, i + 1, free - sizeSeq[i])
    ELSE 1 + SlotsNeeded(sizeSeq, i + 1, 32 - sizeSeq[i])

PackSizes(types) == [i \in DOMAIN types |-> getTypeSize(types[i])]

\* Packing in size-descending order needs strictly fewer slots than packing
\* in declaration order.
FewerSlotsWhenSorted(types) ==
    SlotsNeeded(sortDescending(PackSizes(types), <<>>), 1, 0)
        < SlotsNeeded(PackSizes(types), 1, 0)

\* C10: STORAGE_PACKING is reported for a contract exactly when it has at
\* least 2 state variables and packing them in size-descending order needs
\* strictly fewer 32-byte slots than packing them in declaration order; it
\* is reported for uint128 a; uint256 b; uint128 c; (3 slots, 2 when sorted)
\* and not for uint128 a; uint128 c; uint256 b;.
C10_StoragePackingWhenFewerSlots ==
    pc = "analyzed" =>
        \A types \in PackTypeLists : source = PackSource(types) =>
            (HasFinding("STORAGE_PACKING")
                <=> Len(types) >= 2 /\ FewerSlotsWhenSorted(types))

\* The declaration is neither constant nor immutable and its initializer is
\* a number, string or boolean literal.
MutableWithLiteral(p) ==
    /\ p.modifiers \in {"", "public "}
    /\ p.init \in LiteralInitializers

FindingsOf(rule) == {i \in DOMAIN findings : findings[i].rule = rule}

\* C11: USE_CONSTANT (high) is reported for a state variable declaration
\* exactly when the variable is neither constant nor immutable and has an
\* initializer that is a number, string or boolean literal; the same
\* declaration with constant or immutable draws no such finding.  One run of
\* analyze reports it once, at the line of the declaration.
C11_UseConstantForMutableLiteral ==
    /\ pc = "analyzed" =>
           \A p \in DeclParams : source = DeclSource(p) =>
               (HasFinding("USE_CONSTANT") <=> MutableWithLiteral(p))
    /\ pc = "analyzed" /\ Len(runs) = 1 /\ source \in DeclSources =>
           Cardinality(FindingsOf("USE_CONSTANT")) <= 1
    /\ \A i \in FindingsOf("USE_CONSTANT") : findings[i].severity = "high"

\* analyze returned USE_CONSTANT for uint256 public v = 10000;.
C11_Witness ==
    /\ pc = "analyzed"
    /\ source = DeclSource([type |-> "uint256", modifiers |-> "public ",
                            init |-> "10000", afterFunction |-> FALSE])
    /\ HasFinding("USE_CONSTANT")

\* The message of USE_CALLDATA for the parameter of the given name.
CalldataMessage(name) ==
    "Parameter '" \o name \o "' can use 'calldata' instead of 'memory'"

CalldataFindings(name) ==
    {i \in FindingsOf("USE_CALLDATA") : findings[i].message = CalldataMessage(name)}

\* The body of the function assigns to the identifier data.
AssignsData(p) == p.body \in {"assign", "nested"}

\* C12: USE_CALLDATA (medium) is reported once for each memory parameter of
\* an external function exactly when the body of the function holds no
\* assignment whose left side is the identifier of the parameter; the message
\* names the parameter; a function that is not external draws no
\* USE_CALLDATA finding.
C12_UseCalldataForUnassignedMemory ==
    /\ pc = "analyzed" =>
           \A p \in FnParams : source = FnSource(p) =>
               /\ CalldataFindings("data") # {}
                      <=> /\ p.visibility = "external"
                          /\ p.location = "memory"
                          /\ ~AssignsData(p)
               /\ CalldataFindings("more") # {}
                      <=> p.visibility = "external" /\ p.second
               /\ p.visibility # "external" => ~HasFinding("USE_CALLDATA")
               /\ FindingsOf("USE_CALLDATA")
                      = CalldataFindings("data") \cup CalldataFindings("more")
               /\ Len(runs) = 1 =>
                      /\ Cardinality(CalldataFindings("data")) <= 1
                      /\ Cardinality(CalldataFindings("more")) <= 1
    /\ \A i \in FindingsOf("USE_CALLDATA") : findings[i].severity = "medium"

\* analyze returned with one finding for data and one for more, on an
\* external function that writes an element of data and reads it.
C12_Witness ==
    /\ pc = "analyzed"
    /\ Len(runs) = 1
    /\ source = FnSource([visibility |-> "external", location |-> "memory",
                          body |-> "index", second |-> TRUE])
    /\ Cardinality(CalldataFindings("data")) = 1
    /\ Cardinality(CalldataFindings("more")) = 1

\* The lines of the findings of the rule, in the order of the findings.
RECURSIVE LinesFrom(_, _)
LinesFrom(rule, i) ==
    IF i > Len(findings) THEN <<>>
    ELSE (IF findings[i].rule = rule THEN <<findings[i].line>> ELSE <<>>)
         \o LinesFrom(rule, i + 1)

\* The lines of the statements of the source that carry a string literal
\* as their message.
LiteralMessageLines(p) ==
    IF p.message # "literal" THEN <<>>
    ELSE IF p.twice THEN <<4, 5>> ELSE <<4>>

\* C13: CUSTOM_ERRORS (medium) is reported exactly once for every require or
\* assert statement whose message is a string literal, at the line of the
\* statement, wherever the statement stands; a require or assert without a
\* message, or with a message that is no literal, draws none.
C13_CustomErrorsForLiteralMessage ==
    /\ pc = "analyzed" =>
           \A p \in ReqParams : source = ReqSource(p) =>
               /\ HasFinding("CUSTOM_ERRORS") <=> p.message = "literal"
               /\ Len(runs) = 1 =>
                      LinesFrom("CUSTOM_ERRORS", 1) = LiteralMessageLines(p)
    /\ \A i \in FindingsOf("CUSTOM_ERRORS") : findings[i].severity = "medium"

\* analyze returned the two findings for two assert statements with a
\* literal message inside the body of a do-while loop.
C13_Witness ==
    /\ pc = "analyzed"
    /\ Len(runs) = 1
    /\ source = ReqSource([kind |-> "assert", message |-> "literal",
                           place |-> "doWhile", twice |-> TRUE])
    /\ LinesFrom("CUSTOM_ERRORS", 1) = <<4, 5>>

\* What tokenize returns for the text s, from the cursor c on, after toks.
RECURSIVE TokensFrom(_, _, _)
TokensFrom(s, c, toks) ==
    IF Lexer_isAtEnd(s, c)
    THEN Append(toks, makeToken(T("EOF"), "", c.line, c.column))
    ELSE TokensFrom(s, tokenizeIteration(s, c).cur,
                    pushToken(toks, tokenizeIteration(s, c)))

TokensOf(s) == TokensFrom(s, Cursor(0, 1, 1), <<>>)

\* The characters of LexAlphabet that begin no token.
UnrecognizedChars == {"#", "\\"}

\* The text s with a space in the place of every unrecognized character.
RECURSIVE Blanked(_)
Blanked(s) ==
    IF s = "" THEN ""
    ELSE (IF charAt(s, 0) \in UnrecognizedChars THEN " " ELSE charAt(s, 0))
         \o Blanked(SubSeq(s, 2, Len(s)))

\* No character of s opens a string or a comment, so that every
\* unrecognized character of s stands where a token would begin.
RECURSIVE OutsideStringsAndComments(_)
OutsideStringsAndComments(s) ==
    \/ s = ""
    \/ /\ charAt(s, 0) \notin {"\"", "'", "/"}
       /\ OutsideStringsAndComments(SubSeq(s, 2, Len(s)))

\* C14: an unrecognized character is skipped on its own: tokenize drops that
\* one character and nothing else, so the text is tokenized as it would be
\* with a space in the place of the unrecognized character.
C14_UnrecognizedSkippedAlone ==
    pc = "lexed" /\ OutsideStringsAndComments(source)
        => ltokens = TokensOf(Blanked(source))

\* The values of the tokens, in order.
ValuesOf(toks) == [i \in DOMAIN toks |-> toks[i].value]

\* C15: operators are lexed longest match first: an operator of several
\* characters is matched before any shorter prefix of it, so that >>= and
\* <<= each give one token of three characters and >> gives one token.
C15_LongestOperatorFirst ==
    pc = "lexed" =>
        \A op \in LongOperators : source = OperatorText(op) =>
            ValuesOf(ltokens) = <<"e", op, "1", "">>

\* The text begins with a comment, so that its first token is that comment.
BeginsWithComment(s) == Len(s) >= 2 /\ SubSeq(s, 1, 2) \in CommentOpeners

ThirdCharOf(s) == IF Len(s) >= 3 THEN charAt(s, 2) ELSE ""

\* C16 as the text has it: a comment, single-line or multi-line, is a
\* doc-comment (NATSPEC) exactly when its third character is / or !, and a
\* plain COMMENT otherwise.
C16_DocCommentBySlashOrBang ==
    pc = "lexed" /\ BeginsWithComment(source) =>
        ltokens[1].type = IF ThirdCharOf(source) \in {"/", "!"}
                          THEN "NATSPEC" ELSE "COMMENT"

\* The third character repeats the second, or is !.
DocCommentMark(s) == ThirdCharOf(s) \in {charAt(s, 1), "!"}

\* C16, amended: a single-line comment is a doc-comment (NATSPEC) exactly
\* when its third character is / or !, a multi-line comment exactly when its
\* third character is * or !; every other comment is a plain COMMENT.
C16_DocCommentByKind ==
    pc = "lexed" /\ BeginsWithComment(source) =>
        ltokens[1].type = IF DocCommentMark(source) THEN "NATSPEC" ELSE "COMMENT"

\* tokenize returned a multi-line comment that begins with /** as NATSPEC.
C16_Witness ==
    /\ pc = "lexed"
    /\ source = CommentText([opener |-> "/*", third |-> "*", closed |-> TRUE])
    /\ ltokens[1].type = "NATSPEC"
    /\ ltokens[1].isMultiline

DeclarationKeywords == {"contract", "function", "modifier", "event", "struct", "enum"}

\* At the position q of the tokens t the last-consumed token is ; or }, or
\* the next token is a declaration keyword, or there is no next token.
IsSyncPoint(t, q) ==
    \/ t[q + 1].type = "EOF"
    \/ q >= 1 /\ t[q].type \in {"SEMICOLON", "RBRACE"}
    \/ t[q + 1].type = "KEYWORD" /\ t[q + 1].value \in DeclarationKeywords

\* The first such position at or after p.
FirstSyncPoint(t, p) == Least({q \in p..(Len(t) - 1) : IsSyncPoint(t, q)})

\* C17: error recovery advances only until the resynchronization point: from
\* the position where parseTopLevel failed, synchronize stops at the first
\* position, at or after it, where the last-consumed token is ; or } or the
\* next token is one of contract, function, modifier, event, struct, enum;
\* it consumes no token beyond that position.
C17_SynchronizeStopsAtFirstPoint ==
    [][pc = "parsing" /\ pc' = "parsing" /\ ~Call("parseTopLevel", tokens, ppos).ok
          => ppos' = FirstSyncPoint(tokens, Call("parseTopLevel", tokens, ppos).pos)]_vars

\* The expression node written with a pair of parentheses around every
\* operator node.
RECURSIVE Grouping(_)
Grouping(node) ==
    IF NodeType(node) = "Identifier" THEN node.name
    ELSE IF NodeType(node) \in {"BinaryExpression", "AssignmentExpression"}
    THEN "(" \o Grouping(node.left) \o " " \o node.operator \o " "
         \o Grouping(node.right) \o ")"
    ELSE IF NodeType(node) = "TernaryExpression"
    THEN "(" \o Grouping(node.condition) \o " ? " \o Grouping(node.thenExpression)
         \o " : " \o Grouping(node.elseExpression) \o ")"
    ELSE "?"

\* The rung of the operator on the ladder, the loosest first.
Precedence(op) ==
    CASE op = "||" -> 1
      [] op = "&&" -> 2
      [] op \in {"==", "!="} -> 3
      [] op \in {"<", ">", "<=", ">="} -> 4
      [] op = "|" -> 5
      [] op = "^" -> 6
      [] op = "&" -> 7
      [] op \in {"<<", ">>"} -> 8
      [] op \in {"+", "-"} -> 9
      [] op \in {"*", "/", "%"} -> 10
      [] op = "**" -> 11

\* a op1 b op2 c groups to the right when op2 binds tighter than op1 or
\* both are **, and to the left otherwise.
PairGrouping(pair) ==
    IF Precedence(pair[2]) > Precedence(pair[1]) \/ (pair[1] = "**" /\ pair[2] = "**")
    THEN "(a " \o pair[1] \o " (b " \o pair[2] \o " c))"
    ELSE "((a " \o pair[1] \o " b) " \o pair[2] \o " c)"

OtherGrouping(text) ==
    CASE text = "a ? b : c ? d : e" -> "(a ? b : (c ? d : e))"
      [] text = "a ? b ? c : d : e" -> "(a ? (b ? c : d) : e)"
      [] text = "a || b ? c : d" -> "((a || b) ? c : d)"
      [] text = "a ? b : c || d" -> "(a ? b : (c || d))"
      [] text = "a = b = c" -> "(a = (b = c))"
      [] text = "a = b ? c : d" -> "(a = (b ? c : d))"
      [] text = "a += b + c" -> "(a += (b + c))"
      [] text = "a ? b : c = d" -> "((a ? b : c) = d)"
      [] text = "a + b * c - d" -> "((a + (b * c)) - d)"
      [] text = "a ** b ** c ** d" -> "(a ** (b ** (c ** d)))"
      [] text = "a || b && c || d" -> "((a || (b && c)) || d)"
      [] text = "a * b + c * d" -> "((a * b) + (c * d))"

\* The initializer of the state variable of the parsed contract.
ParsedInitializer == ast.children[1].members[1].initialValue

\* C18: parseExpression groups operators by the precedence ladder: an
\* operator of a higher rung binds tighter than one of a lower rung, the
\* operators of one rung other than ** group to the left, and **, the else
\* branch of a ternary and assignment group to the right.
C18_PrecedenceLadder ==
    pc = "parsed" /\ source \in ExprSources =>
        /\ errorCount = 0
        /\ \A pair \in OperatorPairs : source = ExprSource(PairText(pair)) =>
               Grouping(ParsedInitializer) = PairGrouping(pair)
        /\ \A text \in OtherExpressions : source = ExprSource(text) =>
               Grouping(ParsedInitializer) = OtherGrouping(text)

\* parse returned a ** b ** c grouped to the right.
C18_Witness ==
    /\ pc = "parsed"
    /\ source = ExprSource(PairText(<<"**", "**">>))
    /\ Grouping(ParsedInitializer) = "(a ** (b ** c))"

\* The findings that the rules for state variable declarations report.
DeclarationFindings ==
    FindingsOf("USE_CONSTANT") \cup FindingsOf("USE_IMMUTABLE")

\* C19: the context of traversal is scoped: the current function, set on
\* entering a FunctionDefinition, is seen by the descendants of the function
\* only and not by the siblings visited later, so a finding raised at a state
\* variable declaration, also one that follows a function of the same
\* contract, carries no function name.
C19_FunctionContextScoped ==
    pc = "analyzed" /\ source \in DeclSources =>
        \A i \in DeclarationFindings : findings[i].function = UndefinedString

\* C20: UNCHECKED_INCREMENT (medium) is reported for a for loop exactly when
\* its update clause is a simple ++ or -- and its body holds no unchecked
\* block anywhere in its subtree, at any depth: inside nested loops, the
\* branches of an if, and the body and the catch clauses of a try.
C20_UncheckedIncrementUnlessUnchecked ==
    pc = "analyzed" =>
        \A shape \in LoopShapes : ast = LoopAst(shape) =>
            (HasFinding("UNCHECKED_INCREMENT")
                <=> shape.update \in {"++", "--"} /\ shape.place = "none")

\* C21: every postfix ++ or -- expression yields exactly one
\* PREFIX_INCREMENT finding, whether it is the update clause of a for loop
\* or stands anywhere else: each loop source holds exactly one postfix
\* expression (i++), so the first run reports PREFIX_INCREMENT once.
C21_OnePrefixIncrementPerPostfix ==
    (pc = "analyzed" /\ Len(runs) = 1) =>
        \A p \in LoopParams : source = LoopSource(p) =>
            Cardinality(FindingsOf("PREFIX_INCREMENT")) = 1

\* The greatest exponent of the powers of two the literals are compared
\* with.
MaxShift == 40

\* The number the literal denotes is a power of two greater than 1.
PowerOfTwoAboveOne(literal) ==
    literal.whole /\ \E k \in 1..MaxShift : literal.value = powerOfTwo(k)

\* C22: USE_SHIFT (low) is reported for a binary * or / exactly when its
\* right operand is a number literal whose numeric value is a power of two
\* greater than 1, for decimal, fractional, exponent and hexadecimal
\* literals and for values at and above 2^31 and 2^32.
C22_UseShiftForPowersOfTwo ==
    /\ (pc = "analyzed" /\ Len(runs) = 1) =>
           \A p \in ShiftParams : source = ExprSource(ShiftText(p)) =>
               HasFinding("USE_SHIFT")
                   <=> p.operator \in {"*", "/"} /\ PowerOfTwoAboveOne(p.literal)
    /\ \A i \in FindingsOf("USE_SHIFT") : findings[i].severity = "low"

\* The node at the place of the multiplication in the parsed tree.
VisitNode(place) ==
    CASE place = "value" -> ast.children[1].members[1].initialValue
      [] place = "ternaryCondition" -> ast.children[1].members[1].initialValue.condition
      [] place = "then" -> ast.children[1].members[1].initialValue.thenExpression
      [] place = "else" -> ast.children[1].members[1].initialValue.elseExpression
      [] place = "condition" -> ast.children[1].members[1].body.statements[1].condition
      [] place = "message" -> ast.children[1].members[1].body.statements[1].message

\* C23: pass 2 visits every expression node the parser places in the tree
\* exactly once, so a multiplication by 8 is reported as USE_SHIFT once
\* wherever it stands, the branches of a ternary expression and the message
\* of a require statement included.
C23_TriggerReportedWherever ==
    (pc = "analyzed" /\ Len(runs) = 1) =>
        \A place \in VisitPlaces : source = VisitSource(place) =>
            /\ errorCount = 0
            /\ VisitNode(place).type = "BinaryExpression"
            /\ VisitNode(place).operator = "*"
            /\ Cardinality(FindingsOf("USE_SHIFT")) = 1

\* The message of the STORAGE_PACKING finding about the contract.
PackingMessage(contractName) ==
    "Contract '" \o contractName \o "' can optimize storage layout"

\* C24: every STORAGE_PACKING finding is attributed to the contract it is
\* about: its contract field is the name in its message, and it carries no
\* function name.
C24_PackingAttributedToItsContract ==
    \A i \in FindingsOf("STORAGE_PACKING") :
        /\ findings[i].message = PackingMessage(findings[i].contract)
        /\ findings[i].function = UndefinedString

\* What parse returns for the tokens t: the loop of parse from the state st.
RECURSIVE ParseFrom(_, _)
ParseFrom(t, st) ==
    IF st.thrown \/ Parser_isAtEnd(t, st.pos) THEN st
    ELSE ParseFrom(t, parseIteration(t, st))

\* The tree of the text: tokenize, new Parser, parse.
TreeOf(text) ==
    ParseFrom(filterTokens(TokensOf(text)),
              [pos |-> 0, ast |-> EmptySourceUnit, errorCount |-> 0,
               thrown |-> FALSE, error |-> Null]).ast

\* The source of the parameters without its comment.
WithoutComment(p) == DocSource([p EXCEPT !.comment = ""])

DocComments == {" /// doc", " /** doc */"}

\* C25: a doc-comment between two statements of a function body, between
\* two contract members or at top level causes no syntax error and leaves
\* the parsed tree as it is without the comment.
C25_DocCommentsChangeNothing ==
    pc = "parsed" =>
        \A p \in DocParams : (p.comment \in DocComments /\ source = DocSource(p)) =>
            /\ errorCount = 0
            /\ ast = TreeOf(WithoutComment(p))

\* C26: analyze is idempotent on one Analyzer: once a call of analyze has
\* returned the list of findings, no step of a later call on the same
\* Analyzer changes that list, so that the later call returns an equal list
\* and what the first call returned stays as it was.
C26_AnalyzeAgainChangesNothing ==
    [][(/\ runs # <<>>
        /\ runs[Len(runs)] = thisAnalyzer
        /\ pastFindings' = pastFindings) => findings' = findings]_vars
\* The description and the saving of a STORAGE_PACKING finding that states
\* the slot counts n and m.
PackingDescription(n, m) ==
    "Reordering state variables could reduce storage slots from "
        \o ToString(n) \o " to " \o ToString(m) \o "."

PackingSavings(n, m) ==
    "~" \o ToString((n - m) * 20000) \o " gas on deployment + runtime savings"

\* C27: the slot counts a STORAGE_PACKING finding states are the numbers of
\* 32-byte slots the variables of the contract take when they are packed
\* greedily in declaration order and in size-descending order, and the
\* saving it states is 20000 for each slot of the difference.
C27_StatedSlotCountsAreReal ==
    \A types \in PackTypeLists \cup LongPackLists : source = PackSource(types) =>
        \A i \in FindingsOf("STORAGE_PACKING") :
            /\ findings[i].description =
                   PackingDescription(
                       SlotsNeeded(PackSizes(types), 1, 0),
                       SlotsNeeded(sortDescending(PackSizes(types), <<>>), 1, 0))
            /\ findings[i].gasSavings =
                   PackingSavings(
                       SlotsNeeded(PackSizes(types), 1, 0),
                       SlotsNeeded(sortDescending(PackSizes(types), <<>>), 1, 0))

\* The texts whose token lists are cut for the parser: a valid contract
\* with parameter, argument and statement loops, modifier invocations that
\* skipBalanced passes over, and texts with errors at top level, in a
\* member and in a statement.
ParseTexts ==
    {"contract C {\nuint[2] total;\nfunction f(uint a, uint b) public override(A) only(a) returns (uint) {\ntotal[0] = g(a, b);\n}\n}\n",
     "foo bar;\npragma solidity ^0.8.0;\nstruct ;\nenum E { A, B }\n",
     "contract C {\nfunction f( {\nx = (1;\nif (x) { y(; }\n}\nevent E(uint a);\n}\n",
     "struct S { uint a; }\nfunction g() { return [1, 2]; }\nimport ;\n"}

\* The token lists handed to the Parser: every beginning of the tokens of a
\* text, the empty one included, as it is or with the EOF token behind it.
TokenLists ==
    UNION {{SubSeq(TokensOf(text), 1, k) : k \in 0..Len(TokensOf(text))}
             \cup {Append(SubSeq(TokensOf(text), 1, k),
                          TokensOf(text)[Len(TokensOf(text))])
                     : k \in 1..(Len(TokensOf(text)) - 1)}
           : text \in ParseTexts}

\* A Parser built over one of the token lists.
ParseInit ==
    /\ source = ""
    /\ LexerStart
    /\ tokens \in {filterTokens(toks) : toks \in TokenLists}
    /\ ppos = 0
    /\ past = Null /\ errorCount = 0 /\ perror = Null
    /\ ast = Null
    /\ NoAnalyzer
    /\ pc = "parser"
    /\ NoExtension

ParseNext == parse_begin \/ parse_iteration \/ parse_return

SpecParse == ParseInit /\ [][ParseNext]_vars

\* C28: parse terminates on every token list, with or without an EOF token
\* at its end, valid or malformed: every iteration of its loop either ends
\* the call, by a return or a throw, or leaves the position further on in
\* the token list and not beyond its end, so that the call ends after at
\* most as many iterations as the list has tokens.
C28_ParseConsumesOrExits ==
    [][pc = "parsing" =>
           \/ pc' \in {"parsed", "parseThrown"}
           \/ ppos < ppos' /\ ppos' <= Len(tokens)]_vars

\* parse returned after it caught an error, on a token list of several
\* tokens without an EOF token at its end.
C28_Witness ==
    /\ pc = "parsed"
    /\ errorCount > 0
    /\ Len(tokens) > 5
    /\ tokens[Len(tokens)].type # "EOF"

(***************************************************************************)
(* C29.  In the editor extension every analyzer process that runs is the   *)
(* one activeProcesses records for its file, so that at most one runs per  *)
(* file, a new analysis kills the one before it, no callback of an older   *)
(* process removes the entry of the newest one, and after dispose none     *)
(* runs.                                                                   *)
(***************************************************************************)
C29_RunningProcessIsRecorded ==
    \A i \in DOMAIN analyses :
        analyses[i].running =>
            /\ ~disposed
            /\ Map_has(activeProcesses, analyses[i].filePath)
            /\ activeProcesses[analyses[i].filePath] = i

\* The runs of the analyzer that the callback of the debounce timer t made.
RunsOf(t) == {i \in DOMAIN analyses : analyses[i].timer = t}

\* The timers set for the uri.
TimersOf(uri) == {t \in DOMAIN timers : timers[t].uri = uri}

\* At any time the pending timers are the ones debounceTimers holds, one
\* for a uri at most; a timer that ran its callback made one run of the
\* analyzer and a timer that has not made none; a timer is cleared only by
\* a later call for its uri or by dispose, so the run of a burst of calls
\* is the one of its last call; after dispose no timer is pending.
DebounceCoalesces ==
    /\ \A t \in DOMAIN timers :
           timers[t].state = "pending" <=>
               /\ Map_has(debounceTimers, timers[t].uri)
               /\ debounceTimers[timers[t].uri] = t
    /\ \A t \in DOMAIN timers :
           Cardinality(RunsOf(t)) = IF timers[t].state = "fired" THEN 1 ELSE 0
    /\ \A t \in DOMAIN timers :
           timers[t].state = "cleared" =>
               disposed \/ \E later \in TimersOf(timers[t].uri) : later > t
    /\ \A t \in DOMAIN timers : \A later \in TimersOf(timers[t].uri) :
           (later > t /\ timers[t].state = "fired") =>
               \A i \in RunsOf(t) : \A j \in RunsOf(later) : i < j
    /\ disposed => \A t \in DOMAIN timers : timers[t].state # "pending"

\* The debounce timer t is set and has neither run nor been cleared.
Pending(t) == IF t \in DOMAIN timers THEN timers[t].state = "pending" ELSE FALSE

(***************************************************************************)
(* C30.  Debounced requests coalesce: one pending timer for a document uri *)
(* at most, a new analyzeDocument(document, false) clears the pending one  *)
(* before it sets its own, a burst of calls for one uri makes exactly one  *)
(* run of the analyzer, started after the last call of the burst, and      *)
(* after dispose no timer is pending.                                      *)
(***************************************************************************)
C30_DebouncedRequestsCoalesce ==
    /\ []DebounceCoalesces
    /\ \A t \in 1..MaxCalls : Pending(t) ~> ~Pending(t)

\* A burst of two calls for one uri after which the analyzer ran once, for
\* the second call.
C30_Witness ==
    /\ Len(timers) = 2
    /\ timers[1].uri = timers[2].uri
    /\ timers[1].state = "cleared"
    /\ timers[2].state = "fired"
    /\ ~disposed
    /\ \E i \in DOMAIN analyses : RunsOf(2) = {i} /\ analyses[i].running
====
